---- MODULE Spec2Model ----
(***************************************************************************)
(* Verification model of the hybrid TCP/UDP network simulation             *)
(* (src/Modules: pc.cc, dns.cc, http.cc, mail.cc, database.cc, router.cc,  *)
(* helpers.h).                                                             *)
(*                                                                         *)
(* The module holds several specifications over one set of variables:      *)
(*   Spec       the per-gate link transmitter of one node                  *)
(*              (sendPacketOnGate / startTransmission / endTx, and the     *)
(*              sendDelayed calls of the HTTP and mail servers);           *)
(*   SpecCwnd   the client's congestion window under ACK frames and        *)
(*              congestion timeouts;                                       *)
(*   SpecTcp    one TCP endpoint (the client or one server) under any      *)
(*              sequence of SYN, SYN-ACK, ACK, DATA and FIN frames;        *)
(*   SpecChain  the request chain of one client, the DNS, HTTP and         *)
(*              database servers over a loss-free path of routers;         *)
(*   SpecSyn    the SYN limiter of an HTTP, mail or database server, with  *)
(*              its 1 s sweep, over more than the 60 s tracking window;    *)
(*   SpecWindow one TCP endpoint as in SpecTcp, with the client's          *)
(*              congestion timeout among the steps;                        *)
(*   SpecRip    a chain of RIP routers exchanging their routing tables;    *)
(*   SpecOspf   a ring of OSPF-TE routers flooding link-state              *)
(*              advertisements;                                            *)
(*   SpecForward one router with static routes under host frames, control  *)
(*              frames of a neighbour and its rate-limit reset timer;      *)
(*   SpecCrypt  simpleEncrypt / simpleDecrypt on bounded strings and keys. *)
(*   SpecKeys   one server under key-exchange frames and TCP frames;       *)
(*   SpecOpen   the client's active opens and its retransmit timer.        *)
(*   SpecQueue  the deferred-response queue of a server, with weak         *)
(*              fairness of its process timer.                             *)
(*   SpecLsdb   one OSPF-TE router under the routing frames of a neighbour  *)
(*              and its own Hello and LSA timers.                          *)
(*   SpecDns    the rate limiter of the DNS server with its 1 s reset.      *)
(*   SpecFlood  the ring of SpecOspf with fair delivery and finitely many   *)
(*              originated LSAs.                                           *)
(*   SpecFin    the client and the servers exchanging FIN frames over the   *)
(*              network of SpecChain, with fair forwarding and delivery.   *)
(*   SpecAdvert one RIP router under any sequence of updates.               *)
(* Each specification moves only the variables of its own part and leaves  *)
(* the others at their initial value.                                      *)
(*                                                                         *)
(* Time is counted in ticks of the simulation clock (simTime()).           *)
(***************************************************************************)
EXTENDS Integers, Sequences, FiniteSets, TLC

(***************************************************************************)
(* Bounds of the model.                                                    *)
(***************************************************************************)
\* last tick of the link-transmitter runs
MaxTime == 6
\* frames a node hands to its output gate in one run
MaxFrames == 4
\* ticks one frame occupies the channel (byte length / datarate; every
\* frame is built by mk() with the same byte length)
TxDuration == 2
\* largest sendDelayed delay, in ticks (serviceTime * f)
MaxDelay == 2

VARIABLES
    \* ---- link transmitter of one node (Spec) ----
    node,           \* which module the node is: "PC", "DNS", "HTTP", "MAIL", "DB", "ROUTER"
    now,            \* simTime()
    txFinishTime,   \* the channel's getTransmissionFinishTime()
    txQueue,        \* cQueue txQueue: ids of the frames waiting, head first
    endTxEvent,     \* {} when endTxEvent == nullptr, {t} when it is scheduled at t
    wire,           \* frames given to the channel, in the order of the send calls
    nextId,         \* id of the next frame a handler creates
    \* ---- client (PC) ----
    protocol,       \* par("protocol"): "TCP", "UDP" or "AUTO"
    startEvt,       \* TRUE while the start self-message is scheduled
    pcConns,        \* PC::tcpConnections: peer -> [state, sendSeq, recvSeq]
    pcKeys,         \* PC::sharedKeys: the peers a key is held for
    cwnd,           \* PC::cwnd, a rational <<numerator, denominator>>
    ssthresh,       \* PC::ssthresh, a rational
    dupAckCount,    \* PC::dupAckCount
    retransmitTimer,\* {} or {t}: the time retransmitTimer is scheduled for
    \* ---- servers ----
    srv,            \* srv[s]: the fields of server s (DNS, HTTP, MAIL, DB)
    synAcksSent,    \* synAcksSent[s][a]: the SYN-ACKs s has sent to a since a's
                    \* entry in synCounts was created
    \* ---- the network around the nodes ----
    net,            \* frames in flight, in the order they were sent: [frame, hop]
    sent,           \* every frame a node has given to its gate, in order
    received,       \* frames the node under test has taken from the network
    \* ---- routers ----
    rtr,            \* rtr[r]: the fields and the gate wiring of router r
    \* ---- the payload cipher of helpers.h ----
    crypt,          \* the strings given to simpleEncrypt / simpleDecrypt and
                    \* the strings they returned
    \* ---- what the last event was and what its handler sent ----
    ev,             \* [node, msg]: the node and the message (or timer) handled last
    out             \* the frames that handler gave to its gate, in order

linkOnly == <<node, txFinishTime, txQueue, endTxEvent, wire, nextId>>
linkVars == <<linkOnly, now>>
pcVars == <<protocol, startEvt, pcConns, pcKeys, cwnd, ssthresh, dupAckCount,
            retransmitTimer>>
obsVars == <<ev, out>>

srvVars == <<srv, synAcksSent>>
envVars == <<net, sent, received>>

vars == <<linkVars, pcVars, srvVars, envVars, obsVars, rtr, crypt>>

\* the variables the link transmitter does not touch
nonLinkVars == <<pcVars, srvVars, envVars, obsVars, rtr, crypt>>
\* the variables a handler of the client does not touch
nonPcVars == <<linkOnly, now, srvVars, rtr, crypt>>
\* the variables a handler of a server does not touch
nonSrvVars == <<linkOnly, now, pcVars, rtr, crypt>>

(***************************************************************************)
(* The channel (the simulator's datarate channel, as the modules use it):  *)
(* send() at time `start` occupies the channel until start + TxDuration.   *)
(* The wire entry records the busy-until time the channel had when the     *)
(* frame was given to it; the simulator raises a runtime error when that   *)
(* time is later than the frame's start, and the run ends there.           *)
(***************************************************************************)
NodeKinds == {"PC", "DNS", "HTTP", "MAIL", "DB", "ROUTER"}
Endpoints == {"PC", "DNS", "HTTP", "MAIL", "DB"}

WireEntry(id, start, via) ==
    [id |-> id, start |-> start, busyUntil |-> txFinishTime, via |-> via]

\* send(msg, outGate) / sendDelayed(msg, delay, outGate) as seen by the channel
ChannelSend(id, start, via) ==
    /\ wire' = Append(wire, WireEntry(id, start, via))
    /\ txFinishTime' = start + TxDuration

\* the simulator's "channel is currently busy" runtime error has been raised
ChannelBusyError ==
    \E i \in 1..Len(wire) : wire[i].busyUntil > wire[i].start

Running == ~ChannelBusyError

(***************************************************************************)
(* Endpoints: PC, DNS, HTTP, MailServer, DatabaseServer share this code.   *)
(***************************************************************************)
\* startTransmission(msg): send, then (re)schedule endTxEvent at the
\* channel's new finish time
StartTransmission(id) ==
    /\ ChannelSend(id, now, "tx")
    /\ endTxEvent' = {now + TxDuration}

\* sendPacketOnGate(msg)
SendPacketOnGateBody(id) ==
    IF txFinishTime > now
    THEN /\ txQueue' = Append(txQueue, id)
         /\ UNCHANGED <<txFinishTime, endTxEvent, wire>>
    ELSE IF endTxEvent /= {}
    THEN /\ txQueue' = Append(txQueue, id)
         /\ UNCHANGED <<txFinishTime, endTxEvent, wire>>
    ELSE /\ StartTransmission(id)
         /\ UNCHANGED txQueue

\* a handler of an endpoint hands a new frame to sendPacketOnGate
SendPacketOnGate ==
    /\ Running
    /\ node \in Endpoints
    /\ nextId <= MaxFrames
    /\ SendPacketOnGateBody(nextId)
    /\ nextId' = nextId + 1
    /\ UNCHANGED <<node, now>>
    /\ UNCHANGED nonLinkVars

\* handleSelfMessage(msg), msg == endTxEvent
EndTx ==
    /\ Running
    /\ node \in Endpoints
    /\ now \in endTxEvent
    /\ IF txQueue /= <<>>
       THEN /\ StartTransmission(Head(txQueue))
            /\ txQueue' = Tail(txQueue)
       ELSE /\ endTxEvent' = {}
            /\ UNCHANGED <<txFinishTime, txQueue, wire>>
    /\ UNCHANGED <<node, now, nextId>>
    /\ UNCHANGED nonLinkVars

(***************************************************************************)
(* HTTP::handleHTTPGet (priority >= high), HTTP::handleUDPRequest and      *)
(* MailServer::handleMailRequest (priority >= high) give the response to   *)
(* sendDelayed(resp, serviceTime * f, "ppp$o"): the frame goes to the      *)
(* channel with start time now + delay, txQueue and endTxEvent are not     *)
(* consulted and not changed.                                              *)
(***************************************************************************)
SendDelayedBody(id, delay) ==
    /\ ChannelSend(id, now + delay, "delayed")
    /\ UNCHANGED <<txQueue, endTxEvent>>

SendDelayed ==
    /\ Running
    /\ node \in {"HTTP", "MAIL"}
    /\ nextId <= MaxFrames
    /\ \E delay \in 0..MaxDelay : SendDelayedBody(nextId, delay)
    /\ nextId' = nextId + 1
    /\ UNCHANGED <<node, now>>
    /\ UNCHANGED nonLinkVars

(***************************************************************************)
(* Router: one output gate of the per-gate maps txQueue[g], endTxEvent[g]. *)
(***************************************************************************)
\* Router::startTransmission(msg, gateIndex)
RouterStartTransmission(id) ==
    /\ ChannelSend(id, now, "tx")
    /\ IF now + TxDuration > now
       THEN endTxEvent' = {now + TxDuration}
       ELSE UNCHANGED endTxEvent

\* Router::sendPacketOnGate(msg, gateIndex)
RouterSendPacketOnGateBody(id) ==
    IF txFinishTime > now
    THEN /\ txQueue' = Append(txQueue, id)
         /\ UNCHANGED <<txFinishTime, endTxEvent, wire>>
    ELSE /\ RouterStartTransmission(id)
         /\ UNCHANGED txQueue

RouterSendPacketOnGate ==
    /\ Running
    /\ node = "ROUTER"
    /\ nextId <= MaxFrames
    /\ RouterSendPacketOnGateBody(nextId)
    /\ nextId' = nextId + 1
    /\ UNCHANGED <<node, now>>
    /\ UNCHANGED nonLinkVars

\* Router::handleSelfMessage(msg), msg == endTxEvent[i]
RouterEndTx ==
    /\ Running
    /\ node = "ROUTER"
    /\ now \in endTxEvent
    /\ IF txQueue /= <<>>
       THEN /\ RouterStartTransmission(Head(txQueue))
            /\ txQueue' = Tail(txQueue)
       ELSE /\ endTxEvent' = {}
            /\ UNCHANGED <<txFinishTime, txQueue, wire>>
    /\ UNCHANGED <<node, now, nextId>>
    /\ UNCHANGED nonLinkVars

(***************************************************************************)
(* The scheduler: simulation time advances once every self-event scheduled *)
(* for the current instant has been delivered.                             *)
(***************************************************************************)
Tick ==
    /\ Running
    /\ now < MaxTime
    /\ now \notin endTxEvent
    /\ now' = now + 1
    /\ UNCHANGED <<node, txFinishTime, txQueue, endTxEvent, wire, nextId>>
    /\ UNCHANGED nonLinkVars

(***************************************************************************)
(* Wire messages (helpers.h).                                              *)
(***************************************************************************)
PRIORITY_LOW == 0
PRIORITY_NORMAL == 1
PRIORITY_HIGH == 2
PRIORITY_CRITICAL == 3

\* node addresses: the client's par("address"), its dnsAddr, the DNS answer
\* (the HTTP server), the database server the client contacts, a mail server
PcAddr == 1
DnsAddr == 2
HttpAddr == 3
MailAddr == 4
DbAddr == 601

\* intuniform(1000, 9999): the initial sequence numbers
SeqLo == 1000
SeqHi == 9999
\* the draws of intuniform the model follows
SeqDraws == {SeqLo, SeqHi}

\* generateSYNCookie's secret 0x5EED and the 24-bit mask 0xFFFFFF + 1
CookieSecret == 24301
Two24 == 16777216

RECURSIVE Xor(_, _)
\* a ^ b on non-negative integers
Xor(a, b) ==
    IF a = 0 THEN b
    ELSE IF b = 0 THEN a
    ELSE (((a % 2) + (b % 2)) % 2) + 2 * Xor(a \div 2, b \div 2)

\* A long cookie value is kept as its low 24 bits (lo) and the bits above
\* them (hi): the value is hi * 2^24 + lo.
\* generateSYNCookie(src, dst, seq) ==
\*     ((src ^ dst ^ seq ^ secret) & 0xFFFFFF) | (seq << 24)
GenerateSYNCookie(src, dst, seq) ==
    [lo |-> Xor(Xor(Xor(src, dst), seq), CookieSecret) % Two24, hi |-> seq]

\* a validation that compares the bits above the low 24 instead
ValidateSYNCookieHighBits(cookie, src, dst, seq) ==
    cookie.hi = GenerateSYNCookie(src, dst, seq).hi

\* validateSYNCookie(cookie, src, dst, seq):
\*     (cookie & 0xFFFFFF) == (expected & 0xFFFFFF)
ValidateSYNCookie(cookie, src, dst, seq) ==
    cookie.lo = GenerateSYNCookie(src, dst, seq).lo

NoCookie == [lo |-> 0, hi |-> 0]

\* mk(name, kind, src, dst); pars is the set of the parameters added with
\* addPar beyond src, dst, seq, ack and priority
Mk(kind, src, dst) ==
    [kind |-> kind, src |-> src, dst |-> dst, seq |-> 0, ack |-> 0,
     priority |-> PRIORITY_NORMAL, pars |-> {}, synCookie |-> NoCookie,
     answer |-> 0, protocol |-> ""]

\* a self-message, written as a message of the node to itself
SelfMsg(name, addr) == Mk(name, addr, addr)

\* a frame given to sendPacketOnGate, and one given to sendDelayed
ViaTx(f) == [frame |-> f, via |-> "tx"]
ViaDelayed(f) == [frame |-> f, via |-> "delayed"]

\* std::map: m[k] = v
MapPut(m, k, v) == [x \in (DOMAIN m) \cup {k} |-> IF x = k THEN v ELSE m[x]]
\* std::map: m.erase(k)
MapErase(m, k) == [x \in (DOMAIN m) \ {k} |-> m[x]]
EmptyMap == [x \in {} |-> 0]

\* TCPConnection, the fields the code reads: state, sendSeq, recvSeq
Conn(state, sendSeq, recvSeq) ==
    [state |-> state, sendSeq |-> sendSeq, recvSeq |-> recvSeq]
\* TCPConnection(): the value operator[] inserts for a missing key
DefaultConn == Conn("TCP_CLOSED", 0, 0)

(***************************************************************************)
(* Congestion windows are doubles in the code; the model keeps them as     *)
(* exact rationals <<n, d>> in lowest terms.                               *)
(***************************************************************************)
RECURSIVE Gcd(_, _)
Gcd(a, b) == IF b = 0 THEN a ELSE Gcd(b, a % b)

Rat(n, d) == LET g == Gcd(n, d) IN <<n \div g, d \div g>>
RatLt(a, b) == a[1] * b[2] < b[1] * a[2]
RatLeq(a, b) == a[1] * b[2] <= b[1] * a[2]
RatAdd(a, b) == Rat(a[1] * b[2] + b[1] * a[2], a[2] * b[2])
RatInv(a) == Rat(a[2], a[1])
RatTimes2(a) == Rat(2 * a[1], a[2])
RatHalf(a) == Rat(a[1], 2 * a[2])
RatOne == <<1, 1>>

\* the largest numerator and denominator a window may have when an ACK is
\* handled (the model's arithmetic stays within TLC's integers)
CwndCap == 600
Representable(c) == c[1] <= CwndCap /\ c[2] <= CwndCap

\* slow start: cwnd *= 2
SlowStart(c) == RatTimes2(c)
\* a congestion-avoidance step that shrinks the window: cwnd -= 1.0 / cwnd
CongestionAvoidanceShrinks(c) ==
    Rat(c[1] * c[1] - c[2] * c[2], c[1] * c[2])
\* congestion avoidance: cwnd += 1.0 / cwnd
CongestionAvoidance(c) == RatAdd(c, RatInv(c))
\* if (cwnd < ssthresh) cwnd *= 2; else cwnd += 1.0 / cwnd;
AimdOnAck(c, ss) == IF RatLt(c, ss) THEN SlowStart(c) ELSE CongestionAvoidance(c)

\* TCPConnection(): ssthresh(64.0); PC::initialize: ssthresh = 64.0
InitialSsthresh == 64

(***************************************************************************)
(* The client, PC (pc.cc).  Each handler gives the new value of pcVars and *)
(* the frames it hands to sendPacketOnGate (out').                         *)
(***************************************************************************)
\* initiateKeyExchange(peerAddr) / the reply of handleKeyExchange
PcKeyExchangeFrame(peer) ==
    [Mk("KEY_EXCHANGE", PcAddr, peer) EXCEPT
        !.pars = {"publicKey"}, !.priority = PRIORITY_HIGH]

\* the payload parameter, with "encrypted" added when a key is held
PcPayload(par, peer) ==
    IF peer \in pcKeys THEN {par, "encrypted"} ELSE {par}

\* the SYN of sendDNSQueryTCP, sendHTTPRequestTCP and sendDBRequestTCP
PcSynFrame(peer, seq, prio) ==
    [Mk("TCP_SYN", PcAddr, peer) EXCEPT
        !.seq = seq, !.priority = prio, !.pars = {"synCookie"},
        !.synCookie = GenerateSYNCookie(PcAddr, peer, seq)]

\* sendDNSQueryTCP()
PcSendDNSQueryTCP(seq, before) ==
    /\ pcConns' = MapPut(pcConns, DnsAddr, Conn("TCP_SYN_SENT", seq + 1, 0))
    /\ out' = before \o <<ViaTx(PcSynFrame(DnsAddr, seq, PRIORITY_HIGH))>>
    /\ retransmitTimer' = IF retransmitTimer = {} THEN {now + 3} ELSE retransmitTimer

\* sendDNSQueryUDP()
PcSendDNSQueryUDP(before) ==
    /\ out' = before \o
          <<ViaTx([Mk("DNS_QUERY", PcAddr, DnsAddr) EXCEPT
              !.pars = PcPayload("qname", DnsAddr) \cup {"protocol"},
              !.priority = PRIORITY_HIGH, !.protocol = "UDP"])>>
    /\ UNCHANGED <<pcConns, retransmitTimer>>

\* handleSelfMessage(msg), msg == startEvt
PcHandleStart(seq) ==
    /\ startEvt' = FALSE
    /\ IF protocol = "UDP" \/ protocol = "AUTO"
       THEN PcSendDNSQueryUDP(<<ViaTx(PcKeyExchangeFrame(DnsAddr))>>)
       ELSE PcSendDNSQueryTCP(seq, <<ViaTx(PcKeyExchangeFrame(DnsAddr))>>)
    /\ UNCHANGED <<protocol, pcKeys, cwnd, ssthresh, dupAckCount>>

\* handleKeyExchange(msg)
PcHandleKeyExchange(m) ==
    /\ pcKeys' = pcKeys \cup {m.src}
    /\ out' = <<ViaTx(PcKeyExchangeFrame(m.src))>>
    /\ UNCHANGED <<protocol, startEvt, pcConns, cwnd, ssthresh, dupAckCount,
                   retransmitTimer>>

\* sendDNSDataTCP / sendDBQueryTCP / sendHTTPDataTCP: the data frame sent once
\* the handshake with peer completes; seq is the connection's sendSeq
PcDataFrame(peer, sendSeq) ==
    [Mk("TCP_DATA", PcAddr, peer) EXCEPT
        !.seq = sendSeq,
        !.pars = IF peer = DnsAddr THEN PcPayload("qname", peer)
                 ELSE IF peer = DbAddr THEN PcPayload("query", peer)
                 ELSE PcPayload("path", peer)]

\* a handleTCPSynAck that completes the handshake for any connection entry,
\* whatever its state
PcHandleTCPSynAckAnyState(m) ==
    LET peer == m.src IN
    /\ IF /\ peer \in DOMAIN pcConns
          /\ ValidateSYNCookie(m.synCookie, peer, PcAddr, m.seq)
       THEN LET c == pcConns[peer] IN
            /\ out' = <<ViaTx([Mk("TCP_ACK", PcAddr, peer) EXCEPT
                              !.seq = c.sendSeq, !.ack = m.seq + 1,
                              !.priority = PRIORITY_HIGH]),
                        ViaTx(PcDataFrame(peer, c.sendSeq))>>
            /\ pcConns' = MapPut(pcConns, peer,
                              Conn("TCP_ESTABLISHED", c.sendSeq + 1, m.seq + 1))
       ELSE /\ out' = <<>>
            /\ UNCHANGED pcConns
    /\ UNCHANGED <<protocol, startEvt, pcKeys, cwnd, ssthresh, dupAckCount,
                   retransmitTimer>>

\* handleTCPSynAck(msg)
PcHandleTCPSynAck(m) ==
    LET peer == m.src IN
    /\ IF /\ peer \in DOMAIN pcConns
          /\ pcConns[peer].state = "TCP_SYN_SENT"
          /\ ValidateSYNCookie(m.synCookie, peer, PcAddr, m.seq)
       THEN LET c == pcConns[peer] IN
            /\ out' = <<ViaTx([Mk("TCP_ACK", PcAddr, peer) EXCEPT
                              !.seq = c.sendSeq, !.ack = m.seq + 1,
                              !.priority = PRIORITY_HIGH]),
                        ViaTx(PcDataFrame(peer, c.sendSeq))>>
            /\ pcConns' = MapPut(pcConns, peer,
                              Conn("TCP_ESTABLISHED", c.sendSeq + 1, m.seq + 1))
       ELSE /\ out' = <<>>
            /\ UNCHANGED pcConns
    /\ UNCHANGED <<protocol, startEvt, pcKeys, cwnd, ssthresh, dupAckCount,
                   retransmitTimer>>

\* handleTCPAck(msg)
PcHandleTCPAck(m) ==
    /\ cwnd' = AimdOnAck(cwnd, ssthresh)
    /\ dupAckCount' = 0
    /\ out' = <<>>
    /\ UNCHANGED <<protocol, startEvt, pcConns, pcKeys, ssthresh, retransmitTimer>>

\* handleTCPData(msg) that opens a connection to the database server on
\* every frame carrying bytes
PcHandleTCPDataAlwaysOpens(m, seq) ==
    LET ack == ViaTx([Mk("TCP_ACK", PcAddr, m.src) EXCEPT
                         !.ack = m.seq + 1, !.priority = PRIORITY_HIGH])
    IN
    /\ IF "bytes" \in m.pars
       THEN /\ pcConns' = MapPut(pcConns, DbAddr, Conn("TCP_SYN_SENT", seq + 1, 0))
            /\ out' = <<ViaTx(PcSynFrame(DbAddr, seq, PRIORITY_NORMAL)), ack>>
       ELSE /\ out' = <<ack>>
            /\ UNCHANGED pcConns
    /\ UNCHANGED <<protocol, startEvt, pcKeys, cwnd, ssthresh, dupAckCount,
                   retransmitTimer>>

\* handleTCPData(msg); sendDBRequestTCP(601) when the frame carries "bytes"
\* and no connection to 601 is held
PcHandleTCPData(m, seq) ==
    LET ack == ViaTx([Mk("TCP_ACK", PcAddr, m.src) EXCEPT
                         !.ack = m.seq + 1, !.priority = PRIORITY_HIGH])
    IN
    /\ IF "bytes" \in m.pars /\ DbAddr \notin DOMAIN pcConns
       THEN /\ pcConns' = MapPut(pcConns, DbAddr, Conn("TCP_SYN_SENT", seq + 1, 0))
            /\ out' = <<ViaTx(PcSynFrame(DbAddr, seq, PRIORITY_NORMAL)), ack>>
       ELSE /\ out' = <<ack>>
            /\ UNCHANGED pcConns
    /\ UNCHANGED <<protocol, startEvt, pcKeys, cwnd, ssthresh, dupAckCount,
                   retransmitTimer>>

\* handleTCPFin(msg): tcpConnections[peerAddr].state = TCP_CLOSED
PcHandleTCPFin(m) ==
    LET peer == m.src
        c == IF peer \in DOMAIN pcConns THEN pcConns[peer] ELSE DefaultConn
    IN
    /\ out' = <<ViaTx(Mk("TCP_FIN", PcAddr, peer))>>
    /\ pcConns' = MapPut(pcConns, peer, [c EXCEPT !.state = "TCP_CLOSED"])
    /\ UNCHANGED <<protocol, startEvt, pcKeys, cwnd, ssthresh, dupAckCount,
                   retransmitTimer>>

\* handleDNSResponse(msg); sendHTTPRequestUDP / sendHTTPRequestTCP
PcHandleDNSResponse(m, seq) ==
    LET httpAddr == m.answer
        keys == <<ViaTx(PcKeyExchangeFrame(httpAddr)), ViaTx(PcKeyExchangeFrame(DbAddr))>>
    IN
    /\ IF protocol = "UDP"
       THEN /\ out' = keys \o
                  <<ViaTx([Mk("UDP_DATA", PcAddr, httpAddr) EXCEPT
                      !.pars = PcPayload("path", httpAddr)])>>
            /\ UNCHANGED pcConns
       ELSE /\ out' = keys \o <<ViaTx(PcSynFrame(httpAddr, seq, PRIORITY_NORMAL))>>
            /\ pcConns' = MapPut(pcConns, httpAddr, Conn("TCP_SYN_SENT", seq + 1, 0))
    /\ UNCHANGED <<protocol, startEvt, pcKeys, cwnd, ssthresh, dupAckCount,
                   retransmitTimer>>

\* handleUDPData, handleEncryptedData, handleHTTPResponse, handleDBResponse and
\* the default branch: the message is logged and deleted
PcHandleLogOnly ==
    /\ out' = <<>>
    /\ UNCHANGED pcVars

\* handleMessage(msg) for a message from the network
PcHandleMessage(m, seq) ==
    CASE m.kind = "DNS_RESPONSE" -> PcHandleDNSResponse(m, seq)
      [] m.kind = "TCP_SYN_ACK" -> PcHandleTCPSynAck(m)
      [] m.kind = "TCP_ACK" -> PcHandleTCPAck(m)
      [] m.kind = "TCP_DATA" -> PcHandleTCPData(m, seq)
      [] m.kind = "TCP_FIN" -> PcHandleTCPFin(m)
      [] m.kind = "KEY_EXCHANGE" -> PcHandleKeyExchange(m)
      [] OTHER -> PcHandleLogOnly

\* handleRetransmit(): logs the connections still in SYN_SENT
PcHandleRetransmit ==
    /\ retransmitTimer' = {}
    /\ out' = <<>>
    /\ UNCHANGED <<protocol, startEvt, pcConns, pcKeys, cwnd, ssthresh, dupAckCount>>

\* a congestion timeout that halves the window: cwnd = cwnd / 2
PcHandleCongestionTimeoutHalves ==
    /\ ssthresh' = RatHalf(cwnd)
    /\ cwnd' = RatHalf(cwnd)
    /\ dupAckCount' = 0
    /\ out' = <<>>
    /\ UNCHANGED <<protocol, startEvt, pcConns, pcKeys, retransmitTimer>>

\* handleCongestionTimeout()
PcHandleCongestionTimeout ==
    /\ ssthresh' = RatHalf(cwnd)
    /\ cwnd' = RatOne
    /\ dupAckCount' = 0
    /\ out' = <<>>
    /\ UNCHANGED <<protocol, startEvt, pcConns, pcKeys, retransmitTimer>>

\* PC::initialize
PcInit(p) ==
    /\ protocol = p
    /\ startEvt = TRUE
    /\ pcConns = EmptyMap
    /\ pcKeys = {}
    /\ cwnd = RatOne
    /\ ssthresh = <<InitialSsthresh, 1>>
    /\ dupAckCount = 0
    /\ retransmitTimer = {}

(***************************************************************************)
(* The servers: DNS (dns.cc), HTTP (http.cc), MailServer (mail.cc) and     *)
(* DatabaseServer (database.cc).  srv[s] is the state of server s, a       *)
(* record of its fields; a handler is an operator from the state, the      *)
(* message and the handler's random draw to the new state and the frames   *)
(* the handler gives to its gate.                                          *)
(***************************************************************************)
Servers == {"DNS", "HTTP", "MAIL", "DB"}

SrvAddr(s) ==
    CASE s = "DNS" -> DnsAddr
      [] s = "HTTP" -> HttpAddr
      [] s = "MAIL" -> MailAddr
      [] s = "DB" -> DbAddr

\* par("synRateLimit") of the HTTP, mail and database servers
SynRateLimit == 2
\* par("rateLimit") of the DNS server
RateLimit == 5
\* the SYN tracking window of the sweep: now - timestamp > 60.0
SynWindow == 60
\* the period of synFloodCheckTimer and rateLimitResetTimer: simTime() + 1.0
SweepPeriod == 1

\* the fields of a server; periodicTimer is the time synFloodCheckTimer
\* (DNS: rateLimitResetTimer) is scheduled for, queueTimer whether
\* sendQueueTimer / processMailTimer / processQueryTimer is scheduled,
\* responseQueue the priority queue responseQueue / mailQueue / queryQueue
SrvInitState ==
    [tcpConnections |-> EmptyMap, sharedKeys |-> {},
     synCounts |-> EmptyMap, synTimestamps |-> EmptyMap,
     cwndMap |-> EmptyMap, ssthreshMap |-> EmptyMap,
     requestCounts |-> EmptyMap, activeTransactions |-> EmptyMap,
     responseQueue |-> <<>>, queueTimer |-> FALSE,
     periodicTimer |-> SweepPeriod]

Result(st, o) == [st |-> st, out |-> o]

\* std::map<long, int>: m[k] of a key that may be missing (inserted as 0)
CountOf(m, k) == IF k \in DOMAIN m THEN m[k] ELSE 0
\* std::map<long, double>: m[k] of a key that may be missing (inserted as 0.0)
WindowOf(m, k) == IF k \in DOMAIN m THEN m[k] ELSE <<0, 1>>

\* handleKeyExchange(msg): the key is stored before the test that decides
\* whether to reply
SrvHandleKeyExchange(s, st, m) ==
    LET keys == st.sharedKeys \cup {m.src}
        reply == [Mk("KEY_EXCHANGE", SrvAddr(s), m.src) EXCEPT
                     !.pars = {"publicKey"}, !.priority = PRIORITY_HIGH]
    IN Result([st EXCEPT !.sharedKeys = keys],
              IF m.src \notin keys THEN <<ViaTx(reply)>> ELSE <<>>)

\* the SYN-ACK of handleTCPSyn
SynAckFrame(s, m, serverSeq) ==
    [Mk("TCP_SYN_ACK", SrvAddr(s), m.src) EXCEPT
        !.seq = serverSeq, !.ack = m.seq + 1, !.priority = PRIORITY_HIGH,
        !.pars = {"synCookie"},
        !.synCookie = GenerateSYNCookie(SrvAddr(s), m.src, serverSeq)]

\* conn.cwnd / cwndMap[src] of a new connection: 1.0, database 2.0
InitialCwnd(s) == IF s = "DB" THEN <<2, 1>> ELSE RatOne

\* handleTCPSyn(msg) from the cookie validation on, with the connection's
\* receive sequence set to the SYN's sequence number itself
SrvAcceptSynKeepsSeq(s, st, m, serverSeq) ==
    IF ~ValidateSYNCookie(m.synCookie, m.src, SrvAddr(s), m.seq)
    THEN Result(st, <<>>)
    ELSE Result(
        [st EXCEPT
            !.tcpConnections =
                MapPut(@, m.src, Conn("TCP_SYN_RECEIVED", serverSeq + 1, m.seq)),
            !.cwndMap = IF s = "DNS" THEN @ ELSE MapPut(@, m.src, InitialCwnd(s)),
            !.ssthreshMap = IF s \in {"HTTP", "MAIL"}
                            THEN MapPut(@, m.src, <<InitialSsthresh, 1>>) ELSE @],
        <<ViaTx(SynAckFrame(s, m, serverSeq))>>)

\* handleTCPSyn(msg) from the cookie validation on: SYN-ACK and new
\* connection state, or silent drop
SrvAcceptSyn(s, st, m, serverSeq) ==
    IF ~ValidateSYNCookie(m.synCookie, m.src, SrvAddr(s), m.seq)
    THEN Result(st, <<>>)
    ELSE Result(
        [st EXCEPT
            !.tcpConnections =
                MapPut(@, m.src, Conn("TCP_SYN_RECEIVED", serverSeq + 1, m.seq + 1)),
            !.cwndMap = IF s = "DNS" THEN @ ELSE MapPut(@, m.src, InitialCwnd(s)),
            !.ssthreshMap = IF s \in {"HTTP", "MAIL"}
                            THEN MapPut(@, m.src, <<InitialSsthresh, 1>>) ELSE @],
        <<ViaTx(SynAckFrame(s, m, serverSeq))>>)

\* a limiter that lets one more SYN through
OverSynLimitLate(count) == count > SynRateLimit + 1
\* a limiter that drops the SYN that brings the counter to the limit
OverSynLimitEarly(count) == count >= SynRateLimit
\* if (synCounts[src] > synRateLimit): the SYN is dropped
OverSynLimit(count) == count > SynRateLimit

\* handleTCPSyn(msg) of HTTP, MailServer and DatabaseServer; t is simTime()
SrvHandleTCPSynLimited(s, st, m, serverSeq, t) ==
    LET count == CountOf(st.synCounts, m.src) + 1
        counted == [st EXCEPT !.synCounts = MapPut(@, m.src, count),
                              !.synTimestamps = MapPut(@, m.src, t)]
    IN IF OverSynLimit(count)
       THEN Result(counted, <<>>)
       ELSE SrvAcceptSyn(s, counted, m, serverSeq)

\* handleTCPSyn(msg); DNS::handleTCPSyn keeps no SYN counters
SrvHandleTCPSyn(s, st, m, serverSeq, t) ==
    IF s = "DNS" THEN SrvAcceptSyn(s, st, m, serverSeq)
    ELSE SrvHandleTCPSynLimited(s, st, m, serverSeq, t)

\* the window update of handleTCPAck: HTTP and mail apply AIMD with
\* ssthreshMap, the database adds 1/cwnd, DNS keeps no window
SrvAckWindows(s, st, src) ==
    IF s \in {"HTTP", "MAIL"}
    THEN [st EXCEPT !.cwndMap =
             MapPut(@, src, AimdOnAck(WindowOf(st.cwndMap, src),
                                      WindowOf(st.ssthreshMap, src))),
          !.ssthreshMap = MapPut(@, src, WindowOf(st.ssthreshMap, src))]
    ELSE IF s = "DB"
    THEN [st EXCEPT !.cwndMap =
             MapPut(@, src, CongestionAvoidance(WindowOf(st.cwndMap, src)))]
    ELSE st

\* handleTCPAck(msg)
SrvHandleTCPAck(s, st, m) ==
    LET src == m.src IN
    IF src \notin DOMAIN st.tcpConnections
    THEN Result(st, <<>>)
    ELSE LET c == st.tcpConnections[src]
             est == IF c.state = "TCP_SYN_RECEIVED"
                    THEN [st EXCEPT !.tcpConnections =
                             MapPut(@, src, [c EXCEPT !.state = "TCP_ESTABLISHED"])]
                    ELSE st
         IN Result(SrvAckWindows(s, est, src), <<>>)

\* handleTCPFin(msg) of HTTP, MailServer and DatabaseServer
SrvHandleTCPFin(s, st, m) ==
    Result([st EXCEPT
               !.tcpConnections = MapErase(@, m.src),
               !.cwndMap = MapErase(@, m.src),
               !.ssthreshMap = IF s = "DB" THEN @ ELSE MapErase(@, m.src),
               !.activeTransactions = IF s = "DB" THEN MapErase(@, m.src) ELSE @],
           <<ViaTx(Mk("TCP_FIN", SrvAddr(s), m.src))>>)

\* the parameters of a response: bytes (DNS: qname and answer), and encData
\* and encrypted when a key is held for the peer
ResponsePars(s, st, src) ==
    (IF s = "DNS" THEN {"qname", "answer"} ELSE {"bytes"})
    \cup (IF src \in st.sharedKeys
          THEN (IF s = "DNS" THEN {"encrypted"} ELSE {"encData", "encrypted"})
          ELSE {})
    \cup (IF s = "DB" THEN {"transactionId"} ELSE {})

\* "Set TCP sequence numbers": when a connection entry for src is found the
\* response takes its sendSeq and recvSeq and sendSeq is incremented
StampResponse(st, resp) ==
    IF resp.kind = "TCP_DATA" /\ resp.dst \in DOMAIN st.tcpConnections
    THEN LET c == st.tcpConnections[resp.dst] IN
         [st |-> [st EXCEPT !.tcpConnections =
                     MapPut(@, resp.dst, [c EXCEPT !.sendSeq = c.sendSeq + 1])],
          resp |-> [resp EXCEPT !.seq = c.sendSeq, !.ack = c.recvSeq]]
    ELSE [st |-> st, resp |-> resp]

\* the response is pushed on the priority queue and the queue timer is
\* scheduled unless it is already
QueueResponse(st, resp) ==
    Result([st EXCEPT !.responseQueue = Append(@, resp), !.queueTimer = TRUE], <<>>)

\* HTTP::handleHTTPGet(msg), for HTTP_GET and for TCP_DATA carrying "path"
HttpHandleHTTPGet(st, m) ==
    LET kind == IF m.kind = "TCP_DATA" THEN "TCP_DATA" ELSE "HTTP_RESPONSE"
        r == StampResponse(st, [Mk(kind, HttpAddr, m.src) EXCEPT
                 !.pars = ResponsePars("HTTP", st, m.src), !.priority = m.priority])
    IN IF m.priority >= PRIORITY_HIGH
       THEN Result(r.st, <<ViaDelayed(r.resp)>>)
       ELSE QueueResponse(r.st, r.resp)

\* HTTP::handleUDPRequest(msg)
HttpHandleUDPRequest(st, m) ==
    IF "path" \in m.pars
    THEN Result(st, <<ViaDelayed([Mk("UDP_DATA", HttpAddr, m.src) EXCEPT
                         !.pars = ResponsePars("HTTP", st, m.src),
                         !.priority = m.priority])>>)
    ELSE Result(st, <<>>)

\* HTTP::handleTCPData(msg)
HttpHandleTCPData(st, m) ==
    IF "path" \in m.pars
    THEN HttpHandleHTTPGet(st, m)
    ELSE Result(st, <<ViaTx([Mk("TCP_ACK", HttpAddr, m.src) EXCEPT
                       !.ack = m.seq + 1, !.priority = PRIORITY_HIGH])>>)

\* MailServer::handleMailRequest(msg)
MailHandleMailRequest(st, m) ==
    LET r == StampResponse(st, [Mk("TCP_DATA", MailAddr, m.src) EXCEPT
                 !.pars = ResponsePars("MAIL", st, m.src), !.priority = m.priority])
    IN IF m.priority >= PRIORITY_HIGH
       THEN Result(r.st, <<ViaDelayed(r.resp)>>)
       ELSE QueueResponse(r.st, r.resp)

\* DatabaseServer::handleDatabaseQuery(msg); a response of priority >= high
\* is scheduled as a self-message and given to sendPacketOnGate in the same
\* call
DbHandleDatabaseQuery(st, m) ==
    LET n == CountOf(st.activeTransactions, m.src) + 1
        st1 == [st EXCEPT !.activeTransactions = MapPut(@, m.src, n)]
        r == StampResponse(st1, [Mk("TCP_DATA", DbAddr, m.src) EXCEPT
                 !.pars = ResponsePars("DB", st1, m.src), !.priority = m.priority])
    IN IF m.priority >= PRIORITY_HIGH
       THEN Result(r.st, <<[frame |-> r.resp, via |-> "txScheduled"]>>)
       ELSE QueueResponse(r.st, r.resp)

\* DNS::handleDNSQuery(msg), for DNS_QUERY and for TCP_DATA carrying "qname"
DnsHandleDNSQuery(st, m) ==
    LET isUDP == "protocol" \in m.pars /\ m.protocol = "UDP"
        kind == IF isUDP THEN "UDP_DATA"
                ELSE IF m.kind = "TCP_DATA" THEN "TCP_DATA" ELSE "DNS_RESPONSE"
        r == StampResponse(st, [Mk(kind, DnsAddr, m.src) EXCEPT
                 !.pars = ResponsePars("DNS", st, m.src),
                 !.answer = HttpAddr, !.priority = m.priority])
    IN Result(r.st, <<ViaTx(r.resp)>>)

\* DNS::handleTCPData(msg)
DnsHandleTCPData(st, m) ==
    IF "qname" \in m.pars THEN DnsHandleDNSQuery(st, m) ELSE Result(st, <<>>)

\* the switch of HTTP::handleMessage
HttpDispatch(st, m, serverSeq, t) ==
    CASE m.kind = "KEY_EXCHANGE" -> SrvHandleKeyExchange("HTTP", st, m)
      [] m.kind = "TCP_SYN" -> SrvHandleTCPSyn("HTTP", st, m, serverSeq, t)
      [] m.kind = "TCP_ACK" -> SrvHandleTCPAck("HTTP", st, m)
      [] m.kind = "TCP_DATA" -> HttpHandleTCPData(st, m)
      [] m.kind = "TCP_FIN" -> SrvHandleTCPFin("HTTP", st, m)
      [] m.kind = "HTTP_GET" -> HttpHandleHTTPGet(st, m)
      [] m.kind = "UDP_DATA" -> HttpHandleUDPRequest(st, m)
      [] OTHER -> Result(st, <<>>)

\* the switch of MailServer::handleMessage
MailDispatch(st, m, serverSeq, t) ==
    CASE m.kind = "KEY_EXCHANGE" -> SrvHandleKeyExchange("MAIL", st, m)
      [] m.kind = "TCP_SYN" -> SrvHandleTCPSyn("MAIL", st, m, serverSeq, t)
      [] m.kind = "TCP_ACK" -> SrvHandleTCPAck("MAIL", st, m)
      [] m.kind = "TCP_DATA" -> MailHandleMailRequest(st, m)
      [] m.kind = "TCP_FIN" -> SrvHandleTCPFin("MAIL", st, m)
      [] OTHER -> Result(st, <<>>)

\* the switch of DatabaseServer::handleMessage
DbDispatch(st, m, serverSeq, t) ==
    CASE m.kind = "KEY_EXCHANGE" -> SrvHandleKeyExchange("DB", st, m)
      [] m.kind = "TCP_SYN" -> SrvHandleTCPSyn("DB", st, m, serverSeq, t)
      [] m.kind = "TCP_ACK" -> SrvHandleTCPAck("DB", st, m)
      [] m.kind = "TCP_DATA" -> DbHandleDatabaseQuery(st, m)
      [] m.kind = "TCP_FIN" -> SrvHandleTCPFin("DB", st, m)
      [] OTHER -> Result(st, <<>>)

\* a limiter that drops the frame that brings the counter to the limit
OverRateLimitEarly(count) == count >= RateLimit
\* if (requestCounts[src] > rateLimit): the message is dropped
OverRateLimit(count) == count > RateLimit

\* DNS::handleMessage for a message from the network: every message counts
\* against the sender's rate limit before the switch
DnsDispatch(st, m, serverSeq, t) ==
    LET count == CountOf(st.requestCounts, m.src) + 1
        counted == [st EXCEPT !.requestCounts = MapPut(@, m.src, count)]
    IN IF OverRateLimit(count)
       THEN Result(counted, <<>>)
       ELSE CASE m.kind = "KEY_EXCHANGE" -> SrvHandleKeyExchange("DNS", counted, m)
              [] m.kind = "TCP_SYN" -> SrvHandleTCPSyn("DNS", counted, m, serverSeq, t)
              [] m.kind = "TCP_ACK" -> SrvHandleTCPAck("DNS", counted, m)
              [] m.kind = "TCP_DATA" -> DnsHandleTCPData(counted, m)
              [] m.kind = "DNS_QUERY" -> DnsHandleDNSQuery(counted, m)
              [] OTHER -> Result(counted, <<>>)

\* handleMessage(msg) of server s for a message from the network
SrvHandleMessage(s, st, m, serverSeq, t) ==
    CASE s = "DNS" -> DnsDispatch(st, m, serverSeq, t)
      [] s = "HTTP" -> HttpDispatch(st, m, serverSeq, t)
      [] s = "MAIL" -> MailDispatch(st, m, serverSeq, t)
      [] s = "DB" -> DbDispatch(st, m, serverSeq, t)

\* a sweep that reaps an entry already when the window has just elapsed
SynEntryExpiredEarly(t, stamp) == t - stamp >= SynWindow
\* the sweep's test for one entry: now - it->second > 60.0
SynEntryExpired(t, stamp) == t - stamp > SynWindow

\* handleSelfMessage(msg), msg == synFloodCheckTimer: entries older than the
\* window leave synTimestamps and synCounts, and the timer is scheduled again
SrvHandleSynFloodCheck(st, t) ==
    LET old == {k \in DOMAIN st.synTimestamps : SynEntryExpired(t, st.synTimestamps[k])}
    IN Result([st EXCEPT
                  !.synCounts = [k \in (DOMAIN @) \ old |-> @[k]],
                  !.synTimestamps = [k \in (DOMAIN @) \ old |-> @[k]],
                  !.periodicTimer = t + SweepPeriod],
              <<>>)

\* DNS::handleMessage, msg == rateLimitResetTimer
DnsHandleRateLimitReset(st, t) ==
    Result([st EXCEPT !.requestCounts = EmptyMap, !.periodicTimer = t + SweepPeriod],
           <<>>)

\* the periodic self-message of server s
SrvHandlePeriodic(s, st, t) ==
    IF s = "DNS" THEN DnsHandleRateLimitReset(st, t) ELSE SrvHandleSynFloodCheck(st, t)

\* the head of the queue, whatever its priority
HeadPosition(q) == {1}

\* the positions of the queued responses of highest priority (the top of
\* the priority_queue is one of them)
TopPositions(q) ==
    {i \in 1..Len(q) : \A j \in 1..Len(q) : q[j].priority <= q[i].priority}

RemoveAt(q, i) == SubSeq(q, 1, i - 1) \o SubSeq(q, i + 1, Len(q))

\* handleSelfMessage(msg), msg == sendQueueTimer / processMailTimer /
\* processQueryTimer: the top response goes to sendPacketOnGate and the timer
\* is scheduled again while responses remain; i is the position of the top
SrvHandleQueueTimer(st, i) ==
    IF st.responseQueue = <<>>
    THEN Result([st EXCEPT !.queueTimer = FALSE], <<>>)
    ELSE LET rest == RemoveAt(st.responseQueue, i) IN
         Result([st EXCEPT !.responseQueue = rest, !.queueTimer = (rest /= <<>>)],
                <<ViaTx(st.responseQueue[i])>>)

\* the SYN-ACKs among the frames o that go to address a
SynAcksTo(o, a) ==
    Cardinality({i \in 1..Len(o) :
                    o[i].frame.kind = "TCP_SYN_ACK" /\ o[i].frame.dst = a})

\* synAcksSent[s] after a handler of s took its state from st to st2 and
\* sent the frames o
CountSynAcks(acks, st, st2, o) ==
    [a \in DOMAIN st2.synCounts |->
        (IF a \in DOMAIN st.synCounts THEN acks[a] ELSE 0) + SynAcksTo(o, a)]

\* server s handles message m from the network; serverSeq is the draw of
\* intuniform(1000, 9999) its handleTCPSyn makes
SrvReceive(s, m, serverSeq) ==
    LET r == SrvHandleMessage(s, srv[s], m, serverSeq, now) IN
    /\ srv' = [srv EXCEPT ![s] = r.st]
    /\ synAcksSent' = [synAcksSent EXCEPT ![s] = CountSynAcks(@, srv[s], r.st, r.out)]
    /\ out' = r.out
    /\ ev' = [node |-> s, msg |-> m]
    /\ UNCHANGED nonSrvVars

\* the periodic self-message of server s is delivered
SrvPeriodic(s) ==
    LET r == SrvHandlePeriodic(s, srv[s], now) IN
    /\ srv' = [srv EXCEPT ![s] = r.st]
    /\ synAcksSent' = [synAcksSent EXCEPT ![s] = CountSynAcks(@, srv[s], r.st, r.out)]
    /\ out' = r.out
    /\ ev' = [node |-> s,
              msg |-> SelfMsg(IF s = "DNS" THEN "rateLimitReset" ELSE "synFloodCheck",
                              SrvAddr(s))]
    /\ UNCHANGED nonSrvVars

\* the queue timer of server s is delivered
SrvQueueTimer(s) ==
    /\ srv[s].queueTimer
    /\ \E i \in (IF srv[s].responseQueue = <<>> THEN {0}
                  ELSE TopPositions(srv[s].responseQueue)) :
          LET r == SrvHandleQueueTimer(srv[s], i) IN
          /\ srv' = [srv EXCEPT ![s] = r.st]
          /\ out' = r.out
    /\ ev' = [node |-> s, msg |-> SelfMsg("queueTimer", SrvAddr(s))]
    /\ UNCHANGED <<synAcksSent, nonSrvVars>>

SrvInit ==
    /\ srv = [s \in Servers |-> SrvInitState]
    /\ synAcksSent = [s \in Servers |-> EmptyMap]

\* no router is part of the run and no string is given to the cipher
RtrNone ==
    /\ rtr = <<>>
    /\ crypt = <<>>

\* nothing in flight, nothing sent, nothing received
EnvInit ==
    /\ net = <<>>
    /\ sent = <<>>
    /\ received = 0

ObsInit ==
    /\ ev = [node |-> "none", msg |-> SelfMsg("initialize", 0)]
    /\ out = <<>>

(***************************************************************************)
(* SpecCwnd: the client's congestion window under any sequence of ACK      *)
(* frames and congestion timeouts.                                         *)
(***************************************************************************)
\* the ACK frames the servers send: TCP_ACK with ack = seq + 1 (http.cc:275)
AckFrames ==
    {[Mk("TCP_ACK", s, PcAddr) EXCEPT !.ack = a, !.priority = PRIORITY_HIGH] :
        s \in {DnsAddr, HttpAddr, DbAddr}, a \in {SeqLo + 1, SeqHi + 1}}

\* the client handles message m from the network
PcReceive(m) ==
    /\ \E seq \in SeqDraws : PcHandleMessage(m, seq)
    /\ ev' = [node |-> "PC", msg |-> m]
    /\ UNCHANGED nonPcVars

CwndAck ==
    /\ Representable(cwnd)
    /\ \E m \in AckFrames : PcReceive(m)
    /\ UNCHANGED envVars

CwndTimeout ==
    /\ PcHandleCongestionTimeout
    /\ ev' = [node |-> "PC", msg |-> SelfMsg("congestion", PcAddr)]
    /\ UNCHANGED <<nonPcVars, envVars>>

\* initialize(): endTxEvent = nullptr, txQueue empty, the channel idle
LinkQuiet ==
    /\ txFinishTime = 0
    /\ txQueue = <<>>
    /\ endTxEvent = {}
    /\ wire = <<>>
    /\ nextId = 1

LinkInit ==
    /\ node \in NodeKinds
    /\ now = 0
    /\ LinkQuiet

\* the link transmitter's variables while another part of the model runs
LinkIdle ==
    /\ node = "PC"
    /\ now = 0
    /\ LinkQuiet

Init ==
    /\ LinkInit
    /\ PcInit("TCP")
    /\ SrvInit
    /\ EnvInit
    /\ RtrNone
    /\ ObsInit

Next ==
    \/ SendPacketOnGate
    \/ EndTx
    \/ SendDelayed
    \/ RouterSendPacketOnGate
    \/ RouterEndTx
    \/ Tick

Spec == Init /\ [][Next]_vars

CwndInit ==
    /\ LinkIdle
    /\ PcInit("TCP")
    /\ SrvInit
    /\ EnvInit
    /\ RtrNone
    /\ ObsInit

CwndNext ==
    \/ CwndAck
    \/ CwndTimeout

SpecCwnd == CwndInit /\ [][CwndNext]_vars

(***************************************************************************)
(* SpecSyn: the SYN limiter of one HTTP, mail or database server under     *)
(* SYN frames arriving at any time, with the 1 s sweep.  One tick of `now` *)
(* is one second.                                                          *)
(***************************************************************************)
\* last second of the SYN-limiter runs
MaxSynTime == 61
\* SYNs a source sends beyond synRateLimit while its counter entry exists
MaxOverLimit == 1

SynServers == {"HTTP", "MAIL", "DB"}

\* the cookies a SYN may carry: the sender's generateSYNCookie value, the
\* same low 24 bits under other high bits, and other low 24 bits
SynCookies(src, dst, seq) ==
    LET c == GenerateSYNCookie(src, dst, seq) IN
    {c, [c EXCEPT !.hi = 0], [c EXCEPT !.lo = (c.lo + 1) % Two24]}

\* a TCP_SYN as the client builds it (pc.cc sendDNSQueryTCP), with cookie c
SynFrame(src, dst, seq, c) ==
    [Mk("TCP_SYN", src, dst) EXCEPT
        !.seq = seq, !.pars = {"synCookie"}, !.synCookie = c]

SynInit ==
    /\ node \in SynServers
    /\ now = 0
    /\ LinkQuiet
    /\ PcInit("TCP")
    /\ SrvInit
    /\ EnvInit
    /\ RtrNone
    /\ ObsInit

\* a SYN from the client's address reaches the server, with the sender's
\* cookie or with other low 24 bits
SynArrives ==
    /\ CountOf(srv[node].synCounts, PcAddr) < SynRateLimit + MaxOverLimit
    /\ \E c \in {x \in SynCookies(PcAddr, SrvAddr(node), SeqLo) : x.hi = SeqLo} :
          SrvReceive(node, SynFrame(PcAddr, SrvAddr(node), SeqLo, c), SeqLo)
    /\ UNCHANGED envVars

\* synFloodCheckTimer fires at the second it is scheduled for
SynSweep ==
    /\ srv[node].periodicTimer = now
    /\ SrvPeriodic(node)
    /\ UNCHANGED envVars

\* a second passes once the sweep scheduled for this second has run
SynTick ==
    /\ now < MaxSynTime
    /\ srv[node].periodicTimer > now
    /\ now' = now + 1
    /\ ev' = [node |-> "clock", msg |-> SelfMsg("tick", 0)]
    /\ out' = <<>>
    /\ UNCHANGED <<linkOnly, pcVars, srvVars, envVars, rtr, crypt>>

SynNext ==
    \/ SynArrives
    \/ SynSweep
    \/ SynTick

SpecSyn == SynInit /\ [][SynNext]_vars

(***************************************************************************)
(* SpecTcp: one TCP endpoint (the client or one server) under any sequence *)
(* of SYN, SYN-ACK, ACK, DATA and FIN frames from the network.             *)
(***************************************************************************)
\* frames the endpoint takes from the network in one run
MaxReceived == 5

\* the peers whose frames reach the client
ClientPeers == {DnsAddr, DbAddr}

\* the TCP frames that may reach the client
ClientTcpFrames ==
    UNION {
        {[Mk("TCP_SYN_ACK", p, PcAddr) EXCEPT
             !.seq = SeqLo, !.ack = SeqLo + 1, !.priority = PRIORITY_HIGH,
             !.pars = {"synCookie"}, !.synCookie = c] :
            c \in SynCookies(p, PcAddr, SeqLo)}
        \cup {[Mk("TCP_ACK", p, PcAddr) EXCEPT
                  !.ack = SeqLo + 1, !.priority = PRIORITY_HIGH],
              [Mk("TCP_DATA", p, PcAddr) EXCEPT !.seq = SeqLo + 1, !.pars = {"bytes"}],
              [Mk("TCP_DATA", p, PcAddr) EXCEPT
                  !.seq = SeqLo + 1, !.pars = {"qname", "answer"}, !.answer = HttpAddr],
              Mk("TCP_FIN", p, PcAddr),
              SynFrame(p, PcAddr, SeqLo, GenerateSYNCookie(p, PcAddr, SeqLo))}
        : p \in ClientPeers}

\* the TCP frames that may reach server s from the client's address
ServerTcpFrames(s) ==
    {SynFrame(PcAddr, SrvAddr(s), SeqLo, c) : c \in SynCookies(PcAddr, SrvAddr(s), SeqLo)}
    \cup {[Mk("TCP_ACK", PcAddr, SrvAddr(s)) EXCEPT
              !.seq = SeqLo + 1, !.ack = SeqLo + 1, !.priority = PRIORITY_HIGH],
          Mk("TCP_FIN", PcAddr, SrvAddr(s))}
    \cup {[Mk("TCP_DATA", PcAddr, SrvAddr(s)) EXCEPT
              !.seq = SeqLo + 1, !.pars = pars, !.priority = prio] :
            pars \in {{"path"}, {"qname"}, {"query"}},
            prio \in {PRIORITY_NORMAL, PRIORITY_HIGH}}

\* every window the ACK handler of a server would update is representable
WindowsRepresentable(st) ==
    \A a \in DOMAIN st.cwndMap : Representable(st.cwndMap[a])

TcpInit ==
    /\ node \in {"PC"} \cup Servers
    /\ now = 0
    /\ LinkQuiet
    /\ PcInit("TCP")
    /\ SrvInit
    /\ EnvInit
    /\ RtrNone
    /\ ObsInit

\* the client's start self-message is delivered
TcpClientStart ==
    /\ node = "PC"
    /\ startEvt
    /\ \E seq \in SeqDraws : PcHandleStart(seq)
    /\ ev' = [node |-> "PC", msg |-> SelfMsg("start", PcAddr)]
    /\ UNCHANGED <<nonPcVars, envVars>>

\* a TCP frame reaches the client
TcpClientReceive ==
    /\ node = "PC"
    /\ received < MaxReceived
    /\ Representable(cwnd)
    /\ \E m \in ClientTcpFrames : PcReceive(m)
    /\ received' = received + 1
    /\ UNCHANGED <<net, sent>>

\* a TCP frame reaches the server
TcpServerReceive ==
    /\ node \in Servers
    /\ received < MaxReceived
    /\ WindowsRepresentable(srv[node])
    /\ \E m \in ServerTcpFrames(node), serverSeq \in SeqDraws :
          SrvReceive(node, m, serverSeq)
    /\ received' = received + 1
    /\ UNCHANGED <<net, sent>>

\* the server's queue timer is delivered
TcpServerQueueTimer ==
    /\ node \in Servers
    /\ SrvQueueTimer(node)
    /\ UNCHANGED envVars

TcpNext ==
    \/ TcpClientStart
    \/ TcpClientReceive
    \/ TcpServerReceive
    \/ TcpServerQueueTimer

SpecTcp == TcpInit /\ [][TcpNext]_vars

(***************************************************************************)
(* SpecWindow: the congestion windows of one TCP endpoint (the client or   *)
(* one server) under any interleaving of TCP frames and, at the client,    *)
(* congestion timeouts.                                                    *)
(***************************************************************************)
\* the client's congestionTimer self-message is delivered
WindowClientTimeout ==
    /\ node = "PC"
    /\ CwndTimeout

WindowNext ==
    \/ TcpClientStart
    \/ TcpClientReceive
    \/ TcpServerReceive
    \/ TcpServerQueueTimer
    \/ WindowClientTimeout

SpecWindow == TcpInit /\ [][WindowNext]_vars

(***************************************************************************)
(* SpecKeys: one server under any sequence of key-exchange frames and TCP  *)
(* frames from the client's address.                                       *)
(***************************************************************************)
KeysInit ==
    /\ TcpInit
    /\ node \in Servers

\* a key-exchange frame or a TCP frame reaches the server
KeysServerReceive ==
    /\ received < MaxReceived
    /\ WindowsRepresentable(srv[node])
    /\ \E m \in ServerTcpFrames(node) \cup {PcKeyExchangeFrame(SrvAddr(node))},
          serverSeq \in SeqDraws :
          SrvReceive(node, m, serverSeq)
    /\ received' = received + 1
    /\ UNCHANGED <<net, sent>>

KeysNext ==
    \/ KeysServerReceive
    \/ TcpServerQueueTimer

SpecKeys == KeysInit /\ [][KeysNext]_vars

(***************************************************************************)
(* SpecOpen: the client's active opens and its handshake retransmit timer. *)
(* The client starts with any protocol setting, takes DNS responses, HTTP  *)
(* response data and SYN-ACKs from the network, and its retransmit timer   *)
(* fires at the time it is scheduled for.  One tick of `now` is one        *)
(* second.                                                                 *)
(***************************************************************************)
\* last second of the active-open runs
MaxOpenTime == 4

\* the frames that make the client open a connection or complete one
OpenFrames ==
    {[Mk("DNS_RESPONSE", DnsAddr, PcAddr) EXCEPT
         !.pars = {"qname", "answer"}, !.answer = HttpAddr],
     [Mk("TCP_DATA", HttpAddr, PcAddr) EXCEPT !.seq = SeqLo + 1, !.pars = {"bytes"}]}
    \cup {[Mk("TCP_SYN_ACK", p, PcAddr) EXCEPT
              !.seq = SeqLo, !.ack = SeqLo + 1, !.priority = PRIORITY_HIGH,
              !.pars = {"synCookie"},
              !.synCookie = GenerateSYNCookie(p, PcAddr, SeqLo)] :
            p \in {DnsAddr, HttpAddr, DbAddr}}

OpenInit ==
    /\ LinkIdle
    /\ \E p \in {"TCP", "UDP", "AUTO"} : PcInit(p)
    /\ SrvInit
    /\ EnvInit
    /\ RtrNone
    /\ ObsInit

\* the start self-message is delivered
OpenStart ==
    /\ startEvt
    /\ \E seq \in SeqDraws : PcHandleStart(seq)
    /\ ev' = [node |-> "PC", msg |-> SelfMsg("start", PcAddr)]
    /\ UNCHANGED <<nonPcVars, envVars>>

\* a frame reaches the client after it has started
OpenReceive ==
    /\ ~startEvt
    /\ received < MaxReceived
    /\ \E m \in OpenFrames : PcReceive(m)
    /\ received' = received + 1
    /\ UNCHANGED <<net, sent>>

\* the retransmit self-message is delivered at the time it is scheduled for
OpenRetransmit ==
    /\ now \in retransmitTimer
    /\ PcHandleRetransmit
    /\ ev' = [node |-> "PC", msg |-> SelfMsg("retransmit", PcAddr)]
    /\ UNCHANGED <<nonPcVars, envVars>>

\* a second passes once the self-message of this instant has been delivered
OpenTick ==
    /\ now < MaxOpenTime
    /\ now \notin retransmitTimer
    /\ now' = now + 1
    /\ UNCHANGED <<linkOnly, pcVars, srvVars, envVars, obsVars, rtr, crypt>>

OpenNext ==
    \/ OpenStart
    \/ OpenReceive
    \/ OpenRetransmit
    \/ OpenTick

SpecOpen == OpenInit /\ [][OpenNext]_vars

(***************************************************************************)
(* SpecQueue: the deferred-response queue of an HTTP, mail or database     *)
(* server.  Requests of any priority keep arriving from the client's       *)
(* address, those below high priority queue a response, and the queue's    *)
(* process timer is delivered whenever it is scheduled (the kernel         *)
(* delivers a scheduled self-message 1 or 2 ms later): weak fairness of    *)
(* the timer.  `received` counts the low-priority requests taken.          *)
(***************************************************************************)
\* responses the queue holds at most before further requests are held back
MaxQueued == 3

\* low-priority requests of one run
MaxLowRequests == 2

\* queries the database server takes in one run (its transaction counter)
MaxTransactions == 4

\* the servers that defer responses: responseQueue, mailQueue, queryQueue
QueueServers == {"HTTP", "MAIL", "DB"}

\* the requests that may reach server s from the client's address
QueueFrames(s) ==
    {[Mk("TCP_DATA", PcAddr, SrvAddr(s)) EXCEPT
         !.seq = SeqLo + 1, !.pars = pars, !.priority = prio] :
       pars \in {{"path"}, {"query"}},
       prio \in {PRIORITY_LOW, PRIORITY_NORMAL, PRIORITY_HIGH}}

QueueInit ==
    /\ TcpInit
    /\ node \in QueueServers

\* a request reaches the server
QueueArrive ==
    /\ Len(srv[node].responseQueue) < MaxQueued
    /\ CountOf(srv[node].activeTransactions, PcAddr) < MaxTransactions
    /\ \E m \in QueueFrames(node), serverSeq \in {SeqLo} :
          /\ m.priority = PRIORITY_LOW => received < MaxLowRequests
          /\ SrvReceive(node, m, serverSeq)
          /\ received' = IF m.priority = PRIORITY_LOW THEN received + 1 ELSE received
    /\ UNCHANGED <<net, sent>>

QueueNext ==
    \/ QueueArrive
    \/ TcpServerQueueTimer

SpecQueue == QueueInit /\ [][QueueNext]_vars /\ WF_vars(TcpServerQueueTimer)

(***************************************************************************)
(* SpecDns: the rate limiter of the DNS server under frames of every kind  *)
(* from two sources, with its 1 s reset timer.  One tick of `now` is one   *)
(* second.  sent[a] counts the frames of source a since the last reset     *)
(* that the server replied to or that changed a field other than           *)
(* requestCounts.                                                          *)
(***************************************************************************)
\* last second of the rate-limiter runs
MaxDnsTime == 2

\* the frames that may reach the DNS server: every kind from the client's
\* address, queries from a second source
DnsFrames ==
    {PcKeyExchangeFrame(DnsAddr),
     PcSynFrame(DnsAddr, SeqLo, PRIORITY_HIGH),
     [Mk("TCP_ACK", PcAddr, DnsAddr) EXCEPT
         !.seq = SeqLo + 1, !.ack = SeqLo + 1, !.priority = PRIORITY_HIGH],
     [Mk("TCP_DATA", PcAddr, DnsAddr) EXCEPT !.seq = SeqLo + 1, !.pars = {"qname"}],
     Mk("TCP_FIN", PcAddr, DnsAddr)}
    \cup {[Mk("DNS_QUERY", a, DnsAddr) EXCEPT
              !.pars = {"qname", "protocol"}, !.priority = PRIORITY_HIGH,
              !.protocol = "UDP"] : a \in {PcAddr, MailAddr}}

DnsInit ==
    /\ TcpInit
    /\ node = "DNS"

\* a frame reaches the DNS server
DnsArrive ==
    \E m \in DnsFrames :
        /\ CountOf(srv[node].requestCounts, m.src) < RateLimit + MaxOverLimit
        /\ SrvReceive(node, m, SeqLo)
        /\ sent' = IF \/ out' /= <<>>
                      \/ [srv'[node] EXCEPT !.requestCounts = srv[node].requestCounts]
                            /= srv[node]
                   THEN MapPut(sent, m.src, CountOf(sent, m.src) + 1)
                   ELSE sent
        /\ UNCHANGED <<net, received>>

\* rateLimitResetTimer fires at the second it is scheduled for
DnsReset ==
    /\ srv[node].periodicTimer = now
    /\ SrvPeriodic(node)
    /\ sent' = <<>>
    /\ UNCHANGED <<net, received>>

\* a second passes once the reset scheduled for this second has run
DnsTick ==
    /\ now < MaxDnsTime
    /\ srv[node].periodicTimer > now
    /\ now' = now + 1
    /\ ev' = [node |-> "clock", msg |-> SelfMsg("tick", 0)]
    /\ out' = <<>>
    /\ UNCHANGED <<linkOnly, pcVars, srvVars, envVars, rtr, crypt>>

DnsNext ==
    \/ DnsArrive
    \/ DnsReset
    \/ DnsTick

SpecDns == DnsInit /\ [][DnsNext]_vars

(***************************************************************************)
(* SpecChain: the request chain of one client, the DNS server, the HTTP    *)
(* server and the database server over a loss-free path of routers.  A     *)
(* frame crosses Hops links; every link and router keeps the order of the  *)
(* frames of one direction (router.cc forwards a frame towards its dst).   *)
(* Time is not followed: a pending self-message may fire at any step.      *)
(***************************************************************************)
\* links between the client and a server (client - router - router - server)
Hops == 3

ChainServers == {"DNS", "HTTP", "DB"}

\* the module par("address") names
NodeOf(addr) ==
    CASE addr = PcAddr -> "PC"
      [] addr = DnsAddr -> "DNS"
      [] addr = HttpAddr -> "HTTP"
      [] addr = MailAddr -> "MAIL"
      [] addr = DbAddr -> "DB"

\* the frames a handler gave to its gate
FramesOf(o) == [i \in 1..Len(o) |-> o[i].frame]
\* the same frames entering the first link
Launch(o) == [i \in 1..Len(o) |-> [frame |-> o[i].frame, hop |-> 1]]

\* frame i is the first of its direction on its link
HeadOfLink(i) ==
    \A j \in 1..(i - 1) :
        \/ net[j].hop /= net[i].hop
        \/ (net[j].frame.src = PcAddr) /= (net[i].frame.src = PcAddr)

\* the self-messages that are scheduled: the client's start and retransmit
\* timers, the queue timers and the periodic timers of the servers
PendingTimers ==
    (IF startEvt THEN {<<"PC", "start">>} ELSE {})
    \cup (IF retransmitTimer /= {} THEN {<<"PC", "retransmit">>} ELSE {})
    \cup {<<s, "queue">> : s \in {x \in ChainServers : srv[x].queueTimer}}
    \cup {<<s, "periodic">> : s \in ChainServers}

\* nothing is in flight and no one-shot self-message is scheduled
ChainQuiescent ==
    /\ net = <<>>
    /\ \A t \in PendingTimers : t[2] = "periodic"

ChainInit ==
    /\ node = "PC"
    /\ now = 0
    /\ LinkQuiet
    /\ \E p \in {"TCP", "UDP", "AUTO"} : PcInit(p)
    /\ SrvInit
    /\ EnvInit
    /\ RtrNone
    /\ ObsInit

\* a router forwards the first frame of a link to the next link
ChainForward ==
    /\ \E i \in 1..Len(net) :
          /\ net[i].hop < Hops
          /\ HeadOfLink(i)
          /\ net' = [net EXCEPT ![i].hop = @ + 1]
          /\ ev' = [node |-> "ROUTER", msg |-> net[i].frame]
    /\ out' = <<>>
    /\ UNCHANGED <<linkOnly, now, pcVars, srvVars, sent, received, rtr, crypt>>

\* the first frame of the last link reaches its destination, whose
\* handleMessage runs; what it sends enters the network
ChainDeliver ==
    /\ \E i \in 1..Len(net) :
          /\ net[i].hop = Hops
          /\ HeadOfLink(i)
          /\ IF net[i].frame.dst = PcAddr
             THEN PcReceive(net[i].frame)
             ELSE \E serverSeq \in SeqDraws :
                     SrvReceive(NodeOf(net[i].frame.dst), net[i].frame, serverSeq)
          /\ net' = RemoveAt(net, i) \o Launch(out')
    /\ sent' = sent \o FramesOf(out')
    /\ UNCHANGED received

\* a scheduled self-message fires
ChainTimer ==
    /\ \E t \in PendingTimers :
          CASE t = <<"PC", "start">> ->
                  /\ \E seq \in SeqDraws : PcHandleStart(seq)
                  /\ ev' = [node |-> "PC", msg |-> SelfMsg("start", PcAddr)]
                  /\ UNCHANGED nonPcVars
            [] t = <<"PC", "retransmit">> ->
                  /\ PcHandleRetransmit
                  /\ ev' = [node |-> "PC", msg |-> SelfMsg("retransmit", PcAddr)]
                  /\ UNCHANGED nonPcVars
            [] t[2] = "queue" -> SrvQueueTimer(t[1])
            [] t[2] = "periodic" -> SrvPeriodic(t[1])
    /\ net' = net \o Launch(out')
    /\ sent' = sent \o FramesOf(out')
    /\ UNCHANGED received

ChainNext ==
    \/ ChainForward
    \/ ChainDeliver
    \/ ChainTimer

SpecChain == ChainInit /\ [][ChainNext]_vars

(***************************************************************************)
(* SpecFin: the network of SpecChain with the mail server, in which up to  *)
(* MaxFins FIN frames of a closing peer reach the client or an HTTP, mail  *)
(* or database server.  A frame on a link is forwarded and delivered after *)
(* the link's delay: weak fairness of forwarding and of delivery.          *)
(***************************************************************************)
\* FIN frames that enter the network from outside in one run
MaxFins == 1

\* the servers a FIN is exchanged with
FinServers == {"HTTP", "MAIL", "DB"}

\* the FIN frames in flight
FinsInFlight == {i \in 1..Len(net) : net[i].frame.kind = "TCP_FIN"}

\* a FIN between the client and a server is on the last link before its
\* destination
FinArrives ==
    /\ received < MaxFins
    /\ \E s \in FinServers : \E f \in {Mk("TCP_FIN", SrvAddr(s), PcAddr),
                                       Mk("TCP_FIN", PcAddr, SrvAddr(s))} :
          /\ net' = Append(net, [frame |-> f, hop |-> Hops])
          /\ ev' = [node |-> "net", msg |-> f]
    /\ out' = <<>>
    /\ received' = received + 1
    /\ UNCHANGED <<linkOnly, now, pcVars, srvVars, sent, rtr, crypt>>

\* the first frame of the last link reaches its destination, whose
\* handleMessage runs; what it sends enters the network
FinDeliver ==
    /\ \E i \in 1..Len(net) :
          /\ net[i].hop = Hops
          /\ HeadOfLink(i)
          /\ IF net[i].frame.dst = PcAddr
             THEN PcReceive(net[i].frame)
             ELSE \E serverSeq \in {SeqLo} :
                     SrvReceive(NodeOf(net[i].frame.dst), net[i].frame, serverSeq)
          /\ net' = RemoveAt(net, i) \o Launch(out')
    /\ UNCHANGED <<sent, received>>

\* the client's start self-message or a queue timer fires
FinTimer ==
    /\ \E t \in {x \in PendingTimers : x[2] \in {"start", "queue"}} :
          IF t[2] = "start"
          THEN /\ PcHandleStart(SeqLo)
               /\ ev' = [node |-> "PC", msg |-> SelfMsg("start", PcAddr)]
               /\ UNCHANGED nonPcVars
          ELSE SrvQueueTimer(t[1])
    /\ net' = net \o Launch(out')
    /\ UNCHANGED <<sent, received>>

FinNext ==
    \/ FinArrives
    \/ ChainForward
    \/ FinDeliver
    \/ FinTimer

SpecFin ==
    /\ ChainInit
    /\ [][FinNext]_vars
    /\ WF_vars(ChainForward)
    /\ WF_vars(FinDeliver)

(***************************************************************************)
(* The routers (router.cc).  A handler is an operator from the router's    *)
(* fields st to Result(st', out); an entry of out is a frame given to      *)
(* sendPacketOnGate(frame, gate).  Gate g of a router is position g + 1 of *)
(* its field peer, which names the router and gate at the other end of the *)
(* link (HostGate when a host is attached there).  RouteEntry.lastUpdate   *)
(* and LinkState.timestamp are written and never read, and are left out.   *)
(***************************************************************************)
\* if (newHops < 16)
RipInfinity == 16
\* mk(): m->setByteLength(1000)
FrameBytes == 1000
\* linkBandwidth[i] = 100.0
LinkBandwidth == 100
\* linkStateDB[originRouter * 1000 + linkId]
LinkKeyFactor == 1000
\* the destination field of a routing frame: mk(..., routerId, -1)
NoDst == 0 - 1

HostGate == <<0, 0>>

\* sendPacketOnGate(msg, gateIndex)
ViaGate(f, g) == [frame |-> f, gate |-> g, via |-> "tx"]

\* RouteEntry, the fields the code reads
RouteEntry(g, metric, hops) ==
    [nextHop |-> g, metric |-> metric, hopCount |-> hops]

\* gateSize("pppg")
GateSize(st) == Len(st.peer)

\* Router::initialize for address id, par("routingProtocol") proto, the
\* wiring peer and the table routes built from par("routes")
RouterInitState(id, proto, peer, routes) ==
    [routerId |-> id, routingProtocol |-> proto, peer |-> peer,
     routingTable |-> routes, linkStateDB |-> EmptyMap,
     synCounts |-> EmptyMap,
     linkUtilization |-> [g \in 0..(Len(peer) - 1) |-> 0],
     outputQueues |-> [g \in 0..(Len(peer) - 1) |-> <<>>]]

\* for (i = 0; i < gateSize; i++) if (i != skip): every gate, the skipped
\* one included
FloodGatesAll(n, skip) == [k \in 1..n |-> k - 1]
\* for (i = 0; i < gateSize; i++) if (i != skip): the gates in index order
FloodGates(n, skip) ==
    SelectSeq([k \in 1..n |-> k - 1], LAMBDA g : g /= skip)

\* sendPacketOnGate(msg->dup(), i) for every gate i but skip
Flood(f, n, skip) ==
    LET gs == FloodGates(n, skip)
    IN [k \in 1..Len(gs) |-> ViaGate(f, gs[k])]

\* sendOSPFHello()
SendOSPFHello(st) ==
    Result(st, [k \in 1..GateSize(st) |->
                   ViaGate([Mk("OSPF_HELLO", st.routerId, NoDst)
                               EXCEPT !.priority = PRIORITY_HIGH], k - 1)])

\* the LSA of link i built by sendOSPFLSA(): bandwidth is linkBandwidth[i] -
\* linkUtilization[i] (the utilization is kept here in bytes, the code's
\* value times 1000000) and cost is 1.0 / (bandwidth + 1).  emitted is not a
\* parameter of the frame: it numbers the firings of the LSA timers in the
\* order they happen
Lsa(st, i, stamp) ==
    LET bw == Rat(LinkBandwidth * 1000000 - st.linkUtilization[i], 1000000)
    IN [linkId |-> i, cost |-> RatInv(RatAdd(bw, RatOne)), bandwidth |-> bw,
        delay |-> 1, emitted |-> stamp]
       @@ [Mk("OSPF_TE_UPDATE", st.routerId, NoDst)
              EXCEPT !.priority = PRIORITY_HIGH]

RECURSIVE LsaFrom(_, _, _)
LsaFrom(st, i, stamp) ==
    IF i >= GateSize(st) THEN <<>>
    ELSE Flood(Lsa(st, i, stamp), GateSize(st), i) \o LsaFrom(st, i + 1, stamp)

\* sendOSPFLSA()
SendOSPFLSA(st, stamp) == Result(st, LsaFrom(st, 0, stamp))

\* the LinkState handleOSPFLSA() builds from the frame (emitted: the firing
\* the frame was built in, kept beside the record)
LinkStateOf(m) ==
    [routerId |-> m.src, linkId |-> m.linkId, cost |-> m.cost,
     bandwidth |-> m.bandwidth, delay |-> m.delay, emitted |-> m.emitted]

\* handleOSPFLSA(msg) with a re-flood that does not skip the arrival gate
HandleOSPFLSAFloodsBack(st, m, inGate) ==
    Result([st EXCEPT !.linkStateDB =
               MapPut(@, m.src * LinkKeyFactor + m.linkId, LinkStateOf(m))],
           [k \in 1..GateSize(st) |-> ViaGate(m, k - 1)])

\* handleOSPFLSA(msg) with a computeOSPFRoutes() that installs a route to the
\* originating router through the arrival gate
HandleOSPFLSAInstallsRoute(st, m, inGate) ==
    Result([st EXCEPT !.linkStateDB =
               MapPut(@, m.src * LinkKeyFactor + m.linkId, LinkStateOf(m)),
                      !.routingTable = MapPut(@, m.src, RouteEntry(inGate, 1, 1))],
           Flood(m, GateSize(st), inGate))

\* handleOSPFLSA(msg); computeOSPFRoutes() only logs
HandleOSPFLSA(st, m, inGate) ==
    Result([st EXCEPT !.linkStateDB =
               MapPut(@, m.src * LinkKeyFactor + m.linkId, LinkStateOf(m))],
           Flood(m, GateSize(st), inGate))

\* the routes parameter sendRIPUpdate() writes: dest:metric:hopCount of
\* every entry, in the key order of the map.  The metric is 1.0 plus 1.0 per
\* import, a whole number that the stream prints and sscanf reads back
\* without loss, and is kept as an integer
RECURSIVE SerializeRoutes(_, _)
SerializeRoutes(table, keys) ==
    IF keys = {} THEN <<>>
    ELSE LET d == CHOOSE x \in keys : \A y \in keys : x <= y
         IN <<[dest |-> d, metric |-> table[d].metric,
               hops |-> table[d].hopCount]>>
            \o SerializeRoutes(table, keys \ {d})

\* sendRIPUpdate()
SendRIPUpdate(st) ==
    LET update == [routes |-> SerializeRoutes(st.routingTable,
                                              DOMAIN st.routingTable)]
                  @@ Mk("RIP_UPDATE", st.routerId, NoDst)
    IN Result(st, [k \in 1..GateSize(st) |-> ViaGate(update, k - 1)])

\* if (newHops <= 16): a hop limit that lets 16 in
WithinHopLimitInclusive(newHops) == newHops <= RipInfinity
\* if (newHops < 16)
WithinHopLimit(newHops) == newHops < RipInfinity

\* the loop of handleRIPUpdate() with a test that also replaces an entry of
\* equal metric: newMetric <= it->second.metric
RECURSIVE ImportRoutesOnEqual(_, _, _)
ImportRoutesOnEqual(table, routes, inGate) ==
    IF routes = <<>> THEN table
    ELSE LET item == Head(routes)
             newMetric == item.metric + 1
             newHops == item.hops + 1
             install == /\ WithinHopLimit(newHops)
                        /\ \/ item.dest \notin DOMAIN table
                           \/ newMetric <= table[item.dest].metric
         IN ImportRoutesOnEqual(IF install
                                THEN MapPut(table, item.dest,
                                            RouteEntry(inGate, newMetric, newHops))
                                ELSE table,
                                Tail(routes), inGate)

\* the loop of handleRIPUpdate() over the items of the routes parameter
RECURSIVE ImportRoutes(_, _, _)
ImportRoutes(table, routes, inGate) ==
    IF routes = <<>> THEN table
    ELSE LET item == Head(routes)
             newMetric == item.metric + 1
             newHops == item.hops + 1
             install == /\ WithinHopLimit(newHops)
                        /\ \/ item.dest \notin DOMAIN table
                           \/ newMetric < table[item.dest].metric
         IN ImportRoutes(IF install
                         THEN MapPut(table, item.dest,
                                     RouteEntry(inGate, newMetric, newHops))
                         ELSE table,
                         Tail(routes), inGate)

\* handleRIPUpdate(msg) that first drops the routes through the arrival gate
\* that the update does not name
HandleRIPUpdateExpires(st, m, inGate) ==
    LET named == {m.routes[i].dest : i \in 1..Len(m.routes)}
        kept == {d \in DOMAIN st.routingTable :
                    st.routingTable[d].nextHop /= inGate \/ d \in named}
    IN Result([st EXCEPT !.routingTable =
                  ImportRoutes([d \in kept |-> @[d]], m.routes, inGate)],
              <<>>)

\* handleRIPUpdate(msg)
HandleRIPUpdate(st, m, inGate) ==
    Result([st EXCEPT !.routingTable = ImportRoutes(@, m.routes, inGate)],
           <<>>)

\* if (synCounts[src] > synRateLimit), one SYN late
OverRouterSynLimitLate(count) == count > SynRateLimit + 1
\* if (synCounts[src] > synRateLimit)
OverRouterSynLimit(count) == count > SynRateLimit

\* forwardPacket(msg) with the byte length added to the utilization of the
\* arrival gate: linkUtilization[inIdx] += msgSize / 1000000.0
ForwardPacketBillsArrivalGate(st, m, inGate) ==
    LET hit == /\ m.dst \in DOMAIN st.routingTable
               /\ st.routingTable[m.dst].nextHop >= 0
               /\ st.routingTable[m.dst].nextHop < GateSize(st)
        g == st.routingTable[m.dst].nextHop
        used == [st EXCEPT !.linkUtilization[inGate] = @ + FrameBytes]
    IN IF hit
       THEN IF m.priority >= PRIORITY_HIGH \/ st.outputQueues[g] = <<>>
            THEN Result(used, <<ViaGate(m, g)>>)
            ELSE Result([used EXCEPT !.outputQueues[g] = Append(@, m)], <<>>)
       ELSE Result(st, Flood(m, GateSize(st), inGate))

\* forwardPacket(msg) that sends only frames of high priority at once and
\* pushes the others into the output queue of the gate
ForwardPacketQueuesBelowHigh(st, m, inGate) ==
    LET hit == /\ m.dst \in DOMAIN st.routingTable
               /\ st.routingTable[m.dst].nextHop >= 0
               /\ st.routingTable[m.dst].nextHop < GateSize(st)
        g == st.routingTable[m.dst].nextHop
        used == [st EXCEPT !.linkUtilization[g] = @ + FrameBytes]
    IN IF hit
       THEN IF m.priority >= PRIORITY_HIGH
            THEN Result(used, <<ViaGate(m, g)>>)
            ELSE Result([used EXCEPT !.outputQueues[g] = Append(@, m)], <<>>)
       ELSE Result(st, Flood(m, GateSize(st), inGate))

\* forwardPacket(msg); every frame is a cPacket of FrameBytes bytes, and
\* linkUtilization is kept in bytes (the code's value times 1000000)
ForwardPacket(st, m, inGate) ==
    LET hit == /\ m.dst \in DOMAIN st.routingTable
               /\ st.routingTable[m.dst].nextHop >= 0
               /\ st.routingTable[m.dst].nextHop < GateSize(st)
        g == st.routingTable[m.dst].nextHop
        used == [st EXCEPT !.linkUtilization[g] = @ + FrameBytes]
    IN IF hit
       THEN IF m.priority >= PRIORITY_HIGH \/ st.outputQueues[g] = <<>>
            THEN Result(used, <<ViaGate(m, g)>>)
            ELSE Result([used EXCEPT !.outputQueues[g] = Append(@, m)], <<>>)
       ELSE Result(st, Flood(m, GateSize(st), inGate))

\* handleMessage(msg) for a frame that arrived on gate inGate
RouterHandleMessage(st, m, inGate) ==
    CASE m.kind = "OSPF_HELLO" -> Result(st, <<>>)
      [] m.kind \in {"OSPF_LSA", "OSPF_TE_UPDATE"} -> HandleOSPFLSA(st, m, inGate)
      [] m.kind = "RIP_UPDATE" -> HandleRIPUpdate(st, m, inGate)
      [] m.kind = "RIP_REQUEST" -> SendRIPUpdate(st)
      [] m.kind = "TCP_SYN" ->
            LET counted == [st EXCEPT !.synCounts =
                               MapPut(@, m.src, CountOf(@, m.src) + 1)]
            IN IF OverRouterSynLimit(counted.synCounts[m.src])
               THEN Result(counted, <<>>)
               ELSE ForwardPacket(counted, m, inGate)
      [] OTHER -> ForwardPacket(st, m, inGate)

\* the self-messages initialize() schedules and handleSelfMessage() keeps
\* scheduled
RouterTimers(st) ==
    {"rateLimitReset"}
    \cup (IF st.routingProtocol = "OSPF-TE" THEN {"ospfHello", "ospfLSA"}
          ELSE IF st.routingProtocol = "RIP" THEN {"ripUpdate"} ELSE {})

\* handleSelfMessage(msg) for the timer called name
RouterHandleSelfMessage(st, name, stamp) ==
    CASE name = "ospfHello" -> SendOSPFHello(st)
      [] name = "ospfLSA" -> SendOSPFLSA(st, stamp)
      [] name = "ripUpdate" -> SendRIPUpdate(st)
      [] name = "rateLimitReset" -> Result([st EXCEPT !.synCounts = EmptyMap], <<>>)

(***************************************************************************)
(* Networks of routers.  net[r][g + 1] holds the frames on their way to    *)
(* gate g of router r, in the order they were given to the link; a frame   *)
(* given to a gate a host is attached to leaves the model.  Time is not    *)
(* followed: a scheduled self-message may fire at any step.                *)
(***************************************************************************)
RECURSIVE RouterLaunch(_, _, _)
RouterLaunch(n, peer, o) ==
    IF o = <<>> THEN n
    ELSE LET p == peer[Head(o).gate + 1]
         IN RouterLaunch(IF p = HostGate THEN n
                         ELSE [n EXCEPT ![p[1]][p[2] + 1] = Append(@, Head(o).frame)],
                         peer, Tail(o))

\* nothing on any link of the routers rs
RouterNetInit(rs) == [r \in DOMAIN rs |-> [k \in 1..Len(rs[r].peer) |-> <<>>]]

\* the variables of the other parts while routers run
RouterInitOthers ==
    /\ node = "ROUTER"
    /\ now = 0
    /\ LinkQuiet
    /\ PcInit("TCP")
    /\ SrvInit
    /\ sent = <<>>
    /\ received = 0
    /\ crypt = <<>>
    /\ ObsInit

\* router r handles frame m that arrived on its gate g; rest is the network
\* without that frame
RouterReceive(r, g, m, rest) ==
    LET res == RouterHandleMessage(rtr[r], m, g)
    IN /\ rtr' = [rtr EXCEPT ![r] = res.st]
       /\ out' = res.out
       /\ net' = RouterLaunch(rest, rtr[r].peer, res.out)
       /\ ev' = [node |-> "ROUTER", router |-> r, gate |-> g, msg |-> m]
       /\ UNCHANGED <<linkOnly, now, pcVars, srvVars, crypt>>

\* the first frame of a link reaches the router at its end
RouterDeliver ==
    \E r \in DOMAIN rtr : \E k \in 1..Len(net[r]) :
        /\ net[r][k] /= <<>>
        /\ RouterReceive(r, k - 1, Head(net[r][k]), [net EXCEPT ![r][k] = Tail(@)])

\* the self-message called name of router r fires; nextId numbers the
\* firings of the LSA timers
RouterFire(r, name) ==
    LET res == RouterHandleSelfMessage(rtr[r], name, nextId)
    IN /\ rtr' = [rtr EXCEPT ![r] = res.st]
       /\ out' = res.out
       /\ net' = RouterLaunch(net, rtr[r].peer, res.out)
       /\ ev' = [node |-> "ROUTER", router |-> r, gate |-> NoDst,
                 msg |-> SelfMsg(name, rtr[r].routerId)]
       /\ nextId' = IF name = "ospfLSA" THEN nextId + 1 ELSE nextId
       /\ UNCHANGED <<node, txFinishTime, txQueue, endTxEvent, wire, now,
                      pcVars, srvVars, crypt>>

\* the frames on their way to a router
InFlight ==
    LET RECURSIVE Sum(_, _)
        Sum(f, S) == IF S = {} THEN 0
                     ELSE LET x == CHOOSE y \in S : TRUE
                          IN f[x] + Sum(f, S \ {x})
        perRouter == [r \in DOMAIN net |->
                         Sum([k \in 1..Len(net[r]) |-> Len(net[r][k])],
                             1..Len(net[r]))]
    IN Sum(perRouter, DOMAIN net)

(***************************************************************************)
(* SpecRip: a chain of RipRouters routers running RIP.  The destination    *)
(* DnsAddr is attached at both ends of the chain (gate 0 of the first      *)
(* router and gate 1 of the last), where it has a static route.            *)
(***************************************************************************)
\* routers in the chain
RipRouters == 17
\* the wiring of router r of the chain: gate 0 to router r - 1, gate 1 to
\* router r + 1
ChainPeers(r) ==
    <<IF r = 1 THEN HostGate ELSE <<r - 1, 1>>,
      IF r = RipRouters THEN HostGate ELSE <<r + 1, 0>>>>

\* par("routes"): "2:0" at the first router, "2:1" at the last, none between
ChainRoutes(r) ==
    IF r = 1 THEN MapPut(EmptyMap, DnsAddr, RouteEntry(0, 1, 1))
    ELSE IF r = RipRouters THEN MapPut(EmptyMap, DnsAddr, RouteEntry(1, 1, 1))
    ELSE EmptyMap

RipInit ==
    /\ rtr = [r \in 1..RipRouters |->
                 RouterInitState(r, "RIP", ChainPeers(r), ChainRoutes(r))]
    /\ net = RouterNetInit(rtr)
    /\ RouterInitOthers

\* the ripUpdateTimer of a router fires, once the updates of the firing
\* before it have been delivered
RipTimer ==
    /\ InFlight = 0
    /\ \E r \in DOMAIN rtr : RouterFire(r, "ripUpdate")
    /\ UNCHANGED <<sent, received>>

RipDeliver ==
    /\ RouterDeliver
    /\ UNCHANGED <<sent, received>>

RipNext ==
    \/ RipTimer
    \/ RipDeliver

SpecRip == RipInit /\ [][RipNext]_vars

(***************************************************************************)
(* SpecOspf: OspfRouters routers running OSPF-TE in a ring.  Gate 0 of a   *)
(* router leads to the next router of the ring, gate 1 to the one before   *)
(* it, and a host is attached to gate 2.                                   *)
(***************************************************************************)
\* routers in the ring
OspfRouters == 3
\* firings of the LSA timers in one run
MaxLsaRounds == 2
\* frames the routers take from the links in one run
MaxOspfDeliveries == 8

RingPeers(r) ==
    <<<<(r % OspfRouters) + 1, 1>>,
      <<((r + OspfRouters - 2) % OspfRouters) + 1, 0>>,
      HostGate>>

OspfInit ==
    /\ rtr = [r \in 1..OspfRouters |->
                 RouterInitState(r, "OSPF-TE", RingPeers(r), EmptyMap)]
    /\ net = RouterNetInit(rtr)
    /\ RouterInitOthers

\* a self-message of a router fires: the LSA timer, or the hello or the
\* rate-limit timer while the links are empty
OspfTimer ==
    /\ nextId <= MaxLsaRounds
    /\ \E r \in DOMAIN rtr : \E name \in RouterTimers(rtr[r]) :
          /\ name /= "ospfLSA" => InFlight = 0
          /\ RouterFire(r, name)
    /\ UNCHANGED <<sent, received>>

OspfDeliver ==
    /\ received < MaxOspfDeliveries
    /\ RouterDeliver
    /\ received' = received + 1
    /\ UNCHANGED sent

OspfNext ==
    \/ OspfTimer
    \/ OspfDeliver

SpecOspf == OspfInit /\ [][OspfNext]_vars

(***************************************************************************)
(* SpecFlood: the ring of SpecOspf with a bounded number of LSA timer      *)
(* firings and no bound on the deliveries.  A frame given to a link is     *)
(* delivered at the other end after the link's delay: weak fairness of     *)
(* the delivery.                                                           *)
(***************************************************************************)
\* firings of the LSA timers in one run
MaxFloodRounds == 1

\* the LSA timer of a router fires
FloodOriginate ==
    /\ nextId <= MaxFloodRounds
    /\ \E r \in DOMAIN rtr : RouterFire(r, "ospfLSA")
    /\ UNCHANGED <<sent, received>>

\* the first frame of a link reaches the router at its end
FloodDeliver ==
    /\ RouterDeliver
    /\ UNCHANGED <<sent, received>>

FloodNext ==
    \/ FloodOriginate
    \/ FloodDeliver

SpecFlood == OspfInit /\ [][FloodNext]_vars /\ WF_vars(FloodDeliver)

(***************************************************************************)
(* SpecForward: one router with static routes and FwdGates gates, under    *)
(* any sequence of frames arriving on its gates and of firings of its      *)
(* rate-limit timer.  Its routes are "2:0,601:-1": DnsAddr through gate 0, *)
(* DbAddr through a gate index the router does not have, and no route to   *)
(* HttpAddr.  sent[a] counts the SYN frames of source a the router has     *)
(* passed to forwardPacket since the rate-limit timer last fired.          *)
(***************************************************************************)
\* gateSize("pppg") of the router
FwdGates == 3
\* frames the router takes from its gates in one run
MaxFwdFrames == 4

FwdRoutes ==
    MapPut(MapPut(EmptyMap, DnsAddr, RouteEntry(0, 1, 1)),
           DbAddr, RouteEntry(0 - 1, 1, 1))

FwdInit ==
    /\ rtr = [r \in {1} |->
                 RouterInitState(r, "STATIC", [k \in 1..FwdGates |-> HostGate],
                                 FwdRoutes)]
    /\ net = RouterNetInit(rtr)
    /\ RouterInitOthers

\* the frames of hosts: SYN and data frames of two sources
HostFrames ==
    {[Mk(kind, src, dst) EXCEPT !.priority = prio] :
        kind \in {"TCP_SYN", "TCP_DATA"}, src \in {PcAddr, MailAddr},
        dst \in {DnsAddr, HttpAddr, DbAddr},
        prio \in {PRIORITY_NORMAL, PRIORITY_HIGH}}

\* the routing frames of a neighbour: its hello and the LSAs of its links
NeighbourFrames ==
    LET nb == RouterInitState(2, "OSPF-TE", [k \in 1..FwdGates |-> HostGate],
                              EmptyMap)
    IN {[Mk("OSPF_HELLO", 2, NoDst) EXCEPT !.priority = PRIORITY_HIGH]}
       \cup {Lsa(nb, i, 1) : i \in {0, 1}}

\* a frame arrives on a gate of the router
FwdArrive ==
    /\ received < MaxFwdFrames
    /\ \E g \in 0..(FwdGates - 1) : \E m \in HostFrames \cup NeighbourFrames :
          /\ RouterReceive(1, g, m, net)
          /\ sent' = IF m.kind = "TCP_SYN" /\ out' /= <<>>
                     THEN MapPut(sent, m.src, CountOf(sent, m.src) + 1)
                     ELSE sent
    /\ received' = received + 1

\* the rate-limit timer fires
FwdReset ==
    /\ RouterFire(1, "rateLimitReset")
    /\ sent' = <<>>
    /\ UNCHANGED received

FwdNext ==
    \/ FwdArrive
    \/ FwdReset

SpecForward == FwdInit /\ [][FwdNext]_vars

(***************************************************************************)
(* SpecLsdb: one OSPF-TE router with the static routes and the gates of    *)
(* SpecForward, under any sequence of Hello, LSA and TE-update frames of a *)
(* neighbour and of firings of its own Hello and LSA timers.               *)
(***************************************************************************)
\* the routing frames of neighbour 2: its hello, and the LSAs of its links
\* with no frame or one frame billed to the link, under either frame kind
LsdbFrames ==
    {[Mk("OSPF_HELLO", 2, NoDst) EXCEPT !.priority = PRIORITY_HIGH]}
    \cup {[Lsa([RouterInitState(2, "OSPF-TE", [k \in 1..FwdGates |-> HostGate],
                                EmptyMap)
               EXCEPT !.linkUtilization[i] = used], i, 1)
           EXCEPT !.kind = kind] :
            i \in {0, 1}, used \in {0, FrameBytes},
            kind \in {"OSPF_LSA", "OSPF_TE_UPDATE"}}

LsdbInit ==
    /\ rtr = [r \in {1} |->
                 RouterInitState(r, "OSPF-TE", [k \in 1..FwdGates |-> HostGate],
                                 FwdRoutes)]
    /\ net = RouterNetInit(rtr)
    /\ RouterInitOthers

\* a routing frame arrives on a gate of the router
LsdbArrive ==
    /\ received < MaxFwdFrames
    /\ \E g \in 0..(FwdGates - 1) : \E m \in LsdbFrames :
          RouterReceive(1, g, m, net)
    /\ received' = received + 1
    /\ UNCHANGED sent

\* the Hello timer or the LSA timer of the router fires
LsdbTimer ==
    /\ nextId <= MaxLsaRounds
    /\ \E name \in {"ospfHello", "ospfLSA"} : RouterFire(1, name)
    /\ UNCHANGED <<sent, received>>

LsdbNext ==
    \/ LsdbArrive
    \/ LsdbTimer

SpecLsdb == LsdbInit /\ [][LsdbNext]_vars

(***************************************************************************)
(* SpecAdvert: one RIP router with the gates of SpecForward and a static   *)
(* route to DnsAddr, under any sequence of updates of its neighbours: an   *)
(* update names no destination, one, or both of DnsAddr and HttpAddr (in   *)
(* the order of the sender's map), at metric 1 or 2 and at a hop count of  *)
(* 1 or of RipInfinity - 1.                                                *)
(***************************************************************************)
\* the items an update may carry for destination d
AdvertItems(d) ==
    {[dest |-> d, metric |-> k, hops |-> h] : k \in {1, 2}, h \in {1, RipInfinity - 1}}

\* the updates that may reach the router
AdvertFrames ==
    {[routes |-> rs] @@ Mk("RIP_UPDATE", 2, NoDst) :
        rs \in {<<>>}
               \cup {<<a>> : a \in AdvertItems(DnsAddr) \cup AdvertItems(HttpAddr)}
               \cup {<<a, b>> : a \in AdvertItems(DnsAddr), b \in AdvertItems(HttpAddr)}}

AdvertInit ==
    /\ rtr = [r \in {1} |->
                 RouterInitState(r, "RIP", [k \in 1..FwdGates |-> HostGate],
                                 MapPut(EmptyMap, DnsAddr, RouteEntry(0, 1, 1)))]
    /\ net = RouterNetInit(rtr)
    /\ RouterInitOthers

\* an update arrives on a gate of the router
AdvertArrive ==
    /\ received < MaxFwdFrames
    /\ \E g \in 0..(FwdGates - 1) : \E m \in AdvertFrames :
          RouterReceive(1, g, m, net)
    /\ received' = received + 1
    /\ UNCHANGED sent

\* the ripUpdateTimer of the router fires
AdvertTimer ==
    /\ RouterFire(1, "ripUpdate")
    /\ UNCHANGED <<sent, received>>

AdvertNext ==
    \/ AdvertArrive
    \/ AdvertTimer

SpecAdvert == AdvertInit /\ [][AdvertNext]_vars

(***************************************************************************)
(* SpecCrypt: simpleEncrypt and simpleDecrypt (helpers.h) on strings of up *)
(* to MaxStrLen characters and keys of 1 to MaxKeyLen characters.  A       *)
(* character is kept as the number 0..255 of its eight bits.               *)
(***************************************************************************)
\* longest payload string
MaxStrLen == 3
\* longest key
MaxKeyLen == 2
\* the characters the strings are drawn from: NUL, 'A', 0xAA and 0xFF
CryptChars == {0, 65, 170, 255}

\* (char)(c ^ k + 0xAA): the constant added instead of XORed
EncryptCharAdds(c, k) == (Xor(c, k) + 170) % 256
\* (char)(data[i] ^ key[i % key.length()] ^ 0xAA): the cast keeps eight bits
EncryptChar(c, k) == Xor(Xor(c, k), 170) % 256

\* simpleEncrypt(data, key)
SimpleEncrypt(data, key) ==
    [i \in 1..Len(data) |-> EncryptChar(data[i], key[((i - 1) % Len(key)) + 1])]

\* simpleDecrypt(data, key)
SimpleDecrypt(data, key) == SimpleEncrypt(data, key)

\* the strings of up to n characters
StringsUpTo(n) == UNION {[1..l -> CryptChars] : l \in 0..n}

CryptInit ==
    /\ \E x \in StringsUpTo(MaxStrLen) : \E k \in StringsUpTo(MaxKeyLen) \ {<<>>} :
          crypt = [data |-> x, key |-> k, encrypted |-> <<>>,
                   decrypted |-> <<>>, done |-> "none"]
    /\ rtr = <<>>
    /\ LinkIdle
    /\ PcInit("TCP")
    /\ SrvInit
    /\ EnvInit
    /\ ObsInit

\* encrypted = simpleEncrypt(data, key)
CryptEncrypt ==
    /\ crypt.done = "none"
    /\ crypt' = [crypt EXCEPT !.encrypted = SimpleEncrypt(crypt.data, crypt.key),
                              !.done = "encrypt"]
    /\ UNCHANGED <<linkVars, pcVars, srvVars, envVars, obsVars, rtr>>

\* decrypted = simpleDecrypt(encrypted, key)
CryptDecrypt ==
    /\ crypt.done = "encrypt"
    /\ crypt' = [crypt EXCEPT !.decrypted = SimpleDecrypt(crypt.encrypted, crypt.key),
                              !.done = "decrypt"]
    /\ UNCHANGED <<linkVars, pcVars, srvVars, envVars, obsVars, rtr>>

CryptNext ==
    \/ CryptEncrypt
    \/ CryptDecrypt

SpecCrypt == CryptInit /\ [][CryptNext]_vars

(***************************************************************************)
(* C1: on every gate at most one frame is in transmission at any instant:  *)
(* no frame is given to a channel whose busy-until time is later than the  *)
(* time at which the frame starts transmitting.                            *)
(***************************************************************************)
C1_NoOverlappingTransmission ==
    \A i \in 1..Len(wire) : wire[i].busyUntil <= wire[i].start

(***************************************************************************)
(* C2: on every endpoint the frames handed to sendPacketOnGate leave in    *)
(* the order they were handed over: no frame is on the wire while a frame  *)
(* handed to the transmitter earlier is still waiting in the FIFO.         *)
(***************************************************************************)
C2_EndpointFifoOrder ==
    node \in Endpoints =>
        \A i \in 1..Len(wire), j \in 1..Len(txQueue) :
            wire[i].via = "tx" => wire[i].id < txQueue[j]

(***************************************************************************)
(* C3: whenever a transmit FIFO is not empty, the end-of-transmission      *)
(* self-event of that gate is pending.                                     *)
(***************************************************************************)
C3_QueuedImpliesEndTxPending ==
    txQueue /= <<>> => endTxEvent /= {}

(***************************************************************************)
(* C10: an ACK handled by the client never decreases its congestion        *)
(* window: cwnd after handleTCPAck is at least cwnd before it, in the      *)
(* slow-start branch and in the congestion-avoidance branch.               *)
(***************************************************************************)
C10_AckNeverDecreasesCwnd ==
    [][ev'.msg.kind = "TCP_ACK" => RatLeq(cwnd, cwnd')]_vars

\* an ACK has been handled in the congestion-avoidance branch (the window is
\* above the initial threshold, which only that branch can reach) and
\* another in slow start is behind it
C10_Witness ==
    /\ ev.node = "PC"
    /\ ev.msg.kind = "TCP_ACK"
    /\ RatLt(<<InitialSsthresh, 1>>, cwnd)

(***************************************************************************)
(* C4: for every TCP endpoint and peer, the state recorded for the peer    *)
(* changes only along closed -> syn_sent, listen -> syn_received,          *)
(* syn_sent -> established, syn_received -> established and                *)
(* established -> closed (the entry removed).  A peer without an entry is  *)
(* closed at the client and listening at a server.                         *)
(***************************************************************************)
ClientState(conns, p) ==
    IF p \in DOMAIN conns THEN conns[p].state ELSE "TCP_CLOSED"

ServerState(conns, p) ==
    IF p \in DOMAIN conns THEN conns[p].state ELSE "TCP_LISTEN"

C4_ClientEdges ==
    {<<"TCP_CLOSED", "TCP_SYN_SENT">>, <<"TCP_SYN_SENT", "TCP_ESTABLISHED">>,
     <<"TCP_ESTABLISHED", "TCP_CLOSED">>}

\* at a server a removed entry is a listening one again
C4_ServerEdges ==
    {<<"TCP_LISTEN", "TCP_SYN_RECEIVED">>, <<"TCP_SYN_RECEIVED", "TCP_ESTABLISHED">>,
     <<"TCP_ESTABLISHED", "TCP_LISTEN">>}

C4_EdgesOnly ==
    /\ \A p \in (DOMAIN pcConns) \cup (DOMAIN pcConns') :
          ClientState(pcConns, p) /= ClientState(pcConns', p)
            => <<ClientState(pcConns, p), ClientState(pcConns', p)>> \in C4_ClientEdges
    /\ \A s \in Servers :
          \A p \in (DOMAIN srv[s].tcpConnections) \cup (DOMAIN srv'[s].tcpConnections) :
            ServerState(srv[s].tcpConnections, p) /= ServerState(srv'[s].tcpConnections, p)
              => <<ServerState(srv[s].tcpConnections, p),
                   ServerState(srv'[s].tcpConnections, p)>> \in C4_ServerEdges

C4_TcpStateEdges == [][C4_EdgesOnly]_vars

(***************************************************************************)
(* C5: with protocol = UDP the request chain completes: once nothing is in *)
(* flight and no timer is left to fire, the client has received the DNS    *)
(* answer in handleDNSResponse (it has sent its request to the answered    *)
(* HTTP address) and the database server's response has been sent to it    *)
(* and delivered.                                                          *)
(***************************************************************************)
C5_UdpChainCompletes ==
    (protocol = "UDP" /\ ChainQuiescent) =>
        /\ \E i \in 1..Len(sent) : sent[i].src = PcAddr /\ sent[i].dst = HttpAddr
        /\ \E i \in 1..Len(sent) :
              /\ sent[i].src = DbAddr
              /\ sent[i].dst = PcAddr
              /\ sent[i].kind = "TCP_DATA"

(***************************************************************************)
(* C6: with protocol = TCP the client performs three handshakes: once      *)
(* nothing is in flight and no timer is left to fire, the client has sent  *)
(* exactly 3 SYN frames and the servers exactly 3 SYN-ACK frames.          *)
(***************************************************************************)
C6_ThreeHandshakes ==
    (protocol = "TCP" /\ ChainQuiescent) =>
        /\ Cardinality({i \in 1..Len(sent) :
                           sent[i].kind = "TCP_SYN" /\ sent[i].src = PcAddr}) = 3
        /\ Cardinality({i \in 1..Len(sent) : sent[i].kind = "TCP_SYN_ACK"}) = 3

(***************************************************************************)
(* C7: a server (DNS, HTTP, mail, database) sends a SYN-ACK, and changes   *)
(* its connection map, for a SYN only if the low 24 bits of the SYN's      *)
(* cookie equal the low 24 bits of generateSYNCookie(src, server address,  *)
(* seq); a SYN whose cookie does not match gets no reply and leaves the    *)
(* connection map unchanged; and a SYN-ACK is sent for nothing but a SYN.  *)
(***************************************************************************)
C7_CookieMatches(s, m) ==
    m.synCookie.lo
      = (Xor(Xor(Xor(m.src, SrvAddr(s)), m.seq), CookieSecret) % Two24)

C7_SynStep ==
    \A s \in Servers :
        ev'.node = s =>
            /\ (\E i \in 1..Len(out') : out'[i].frame.kind = "TCP_SYN_ACK")
                 => ev'.msg.kind = "TCP_SYN"
            /\ ev'.msg.kind = "TCP_SYN" =>
                 /\ (out' /= <<>> \/ srv'[s].tcpConnections /= srv[s].tcpConnections)
                      => C7_CookieMatches(s, ev'.msg)
                 /\ ~C7_CookieMatches(s, ev'.msg)
                      => /\ out' = <<>>
                         /\ srv'[s].tcpConnections = srv[s].tcpConnections

C7_SynAckOnlyForMatchingCookie == [][C7_SynStep]_vars

\* a SYN whose cookie has the right low 24 bits under other high bits has
\* been answered with a SYN-ACK and has a connection entry
C7_Witness ==
    /\ ev.node \in Servers
    /\ ev.msg.kind = "TCP_SYN"
    /\ ev.msg.synCookie.hi /= ev.msg.seq
    /\ Len(out) = 1
    /\ out[1].frame.kind = "TCP_SYN_ACK"
    /\ ev.msg.src \in DOMAIN srv[ev.node].tcpConnections
    /\ srv[ev.node].tcpConnections[ev.msg.src].state = "TCP_SYN_RECEIVED"

(***************************************************************************)
(* C8: while a source's entry in synCounts exists on an HTTP, mail or      *)
(* database server, the server sends that source at most synRateLimit      *)
(* SYN-ACKs; a SYN that raises the counter above synRateLimit gets no      *)
(* reply and leaves tcpConnections unchanged, whatever its cookie.         *)
(***************************************************************************)
C8_AtMostLimitSynAcks ==
    \A s \in SynServers : \A a \in DOMAIN srv[s].synCounts :
        synAcksSent[s][a] <= SynRateLimit

C8_OverLimitSynDropped ==
    \A s \in SynServers :
        (/\ ev'.node = s
         /\ ev'.msg.kind = "TCP_SYN"
         /\ CountOf(srv[s].synCounts, ev'.msg.src) + 1 > SynRateLimit)
        => /\ out' = <<>>
           /\ srv'[s].tcpConnections = srv[s].tcpConnections
           /\ synAcksSent'[s][ev'.msg.src] = synAcksSent[s][ev'.msg.src]

C8_SynAcksWithinLimit ==
    /\ []C8_AtMostLimitSynAcks
    /\ [][C8_OverLimitSynDropped]_vars

\* a SYN with a valid cookie has been dropped without reply after the source
\* was sent synRateLimit SYN-ACKs
C8_Witness ==
    /\ ev.node \in SynServers
    /\ ev.msg.kind = "TCP_SYN"
    /\ ev.msg.synCookie = GenerateSYNCookie(ev.msg.src, ev.msg.dst, ev.msg.seq)
    /\ out = <<>>
    /\ ev.msg.src \in DOMAIN srv[ev.node].synCounts
    /\ srv[ev.node].synCounts[ev.msg.src] > SynRateLimit
    /\ synAcksSent[ev.node][ev.msg.src] = SynRateLimit

(***************************************************************************)
(* C9: on an HTTP, mail or database server synCounts and synTimestamps     *)
(* hold the same sources; every SYN, accepted or dropped, sets its         *)
(* source's timestamp to the current time, and nothing else changes a      *)
(* timestamp; an entry leaves the maps only in a sweep, and a sweep        *)
(* removes exactly the entries whose timestamp is more than 60 s old; no   *)
(* entry older than 60 s outlives the sweep of the current second; and the *)
(* SYN of a source without an entry is counted as 1.                       *)
(***************************************************************************)
C9_EntriesTogether ==
    \A s \in SynServers :
        /\ DOMAIN srv[s].synCounts = DOMAIN srv[s].synTimestamps
        /\ \A a \in DOMAIN srv[s].synTimestamps :
              now - srv[s].synTimestamps[a] > 60 => srv[s].periodicTimer = now

C9_SweepAndCount ==
    \A s \in SynServers :
        LET before == srv[s].synTimestamps
            after == srv'[s].synTimestamps
            isSyn == ev'.node = s /\ ev'.msg.kind = "TCP_SYN"
            isSweep == ev'.node = s /\ ev'.msg.kind = "synFloodCheck"
        IN
        /\ isSyn => /\ ev'.msg.src \in DOMAIN after
                    /\ after[ev'.msg.src] = now
                    /\ (ev'.msg.src \notin DOMAIN srv[s].synCounts
                          => srv'[s].synCounts[ev'.msg.src] = 1)
                    /\ (ev'.msg.src \in DOMAIN srv[s].synCounts
                          => srv'[s].synCounts[ev'.msg.src]
                               = srv[s].synCounts[ev'.msg.src] + 1)
        /\ \A a \in DOMAIN before :
              /\ (a \notin DOMAIN after) <=> (isSweep /\ now - before[a] > 60)
              /\ (a \in DOMAIN after /\ ~(isSyn /\ ev'.msg.src = a))
                    => /\ after[a] = before[a]
                       /\ srv'[s].synCounts[a] = srv[s].synCounts[a]

C9_CounterReapedAfterWindow ==
    /\ []C9_EntriesTogether
    /\ [][C9_SweepAndCount]_vars

\* a source that was sent a SYN-ACK, stayed silent and was reaped has sent a
\* SYN again, and the counter stands at 1
C9_Witness ==
    /\ ev.node \in SynServers
    /\ ev.msg.kind = "TCP_SYN"
    /\ now > 60
    /\ srv[ev.node].synCounts[ev.msg.src] = 1
    /\ srv[ev.node].synTimestamps[ev.msg.src] = now
    /\ synAcksSent[ev.node][ev.msg.src] = 0
    /\ ev.msg.src \in DOMAIN srv[ev.node].tcpConnections

(***************************************************************************)
(* C11: in every reachable state the client's congestion window and every  *)
(* per-peer congestion window a server holds is at least 1.0, over any     *)
(* interleaving of ACKs and congestion timeouts; a congestion timeout sets *)
(* ssthresh to cwnd/2, cwnd to exactly 1.0 and the duplicate-ACK counter   *)
(* to 0.                                                                   *)
(***************************************************************************)
C11_AllWindowsAtLeastOne ==
    /\ RatLeq(RatOne, cwnd)
    /\ \A s \in Servers : \A a \in DOMAIN srv[s].cwndMap :
          RatLeq(RatOne, srv[s].cwndMap[a])

C11_TimeoutStep ==
    ev'.msg.kind = "congestion" =>
        /\ ssthresh' = RatHalf(cwnd)
        /\ cwnd' = RatOne
        /\ dupAckCount' = 0

C11_WindowAtLeastOne ==
    /\ []C11_AllWindowsAtLeastOne
    /\ [][C11_TimeoutStep]_vars

\* a congestion timeout has fired after ACKs had opened the window: the
\* window is back at 1.0 and the threshold is half of a window above 2.0
C11_Witness ==
    /\ ev.node = "PC"
    /\ ev.msg.kind = "congestion"
    /\ cwnd = RatOne
    /\ RatLt(RatOne, ssthresh)
    /\ RatLt(ssthresh, <<InitialSsthresh, 1>>)

(***************************************************************************)
(* C12: in routers running RIP whose static routes have hop count 1, every *)
(* routing-table entry has a hop count below 16 in every reachable state,  *)
(* and a route advertised with h hops is installed only with hop count     *)
(* h + 1 and only when h + 1 < 16.                                         *)
(***************************************************************************)
C12_AllHopsBelowInfinity ==
    \A r \in DOMAIN rtr : \A d \in DOMAIN rtr[r].routingTable :
        rtr[r].routingTable[d].hopCount < 16

C12_ImportStep ==
    ev'.msg.kind = "RIP_UPDATE" =>
        \A d \in DOMAIN rtr'[ev'.router].routingTable :
            LET before == rtr[ev'.router].routingTable
                after == rtr'[ev'.router].routingTable
            IN (d \notin DOMAIN before \/ after[d] /= before[d]) =>
                  \E i \in 1..Len(ev'.msg.routes) :
                      /\ ev'.msg.routes[i].dest = d
                      /\ after[d].hopCount = ev'.msg.routes[i].hops + 1
                      /\ after[d].hopCount < 16
                      /\ after[d].nextHop = ev'.gate

C12_RipHopsBelowInfinity ==
    /\ []C12_AllHopsBelowInfinity
    /\ [][C12_ImportStep]_vars

\* a router has been advertised the destination with 15 hops and has not
\* installed it
C12_Witness ==
    /\ ev.node = "ROUTER"
    /\ ev.msg.kind = "RIP_UPDATE"
    /\ \E i \in 1..Len(ev.msg.routes) : ev.msg.routes[i].hops = 15
    /\ DnsAddr \notin DOMAIN rtr[ev.router].routingTable

(***************************************************************************)
(* C13: a router that receives an LSA on gate g gives exactly one copy of  *)
(* it to every output gate other than g and no copy to g.                  *)
(***************************************************************************)
C13_RefloodStep ==
    ev'.msg.kind \in {"OSPF_LSA", "OSPF_TE_UPDATE"} =>
        /\ \A i \in 1..Len(out') : out'[i].frame = ev'.msg
        /\ \A g \in 0..(Len(rtr[ev'.router].peer) - 1) :
              Cardinality({i \in 1..Len(out') : out'[i].gate = g})
                 = IF g = ev'.gate THEN 0 ELSE 1

C13_RefloodSkipsArrivalGate == [][C13_RefloodStep]_vars

\* an LSA that came in on gate 1 has gone out on every other gate
C13_Witness ==
    /\ ev.node = "ROUTER"
    /\ ev.msg.kind = "OSPF_TE_UPDATE"
    /\ ev.gate = 1
    /\ Len(out) = Len(rtr[ev.router].peer) - 1
    /\ {out[i].gate : i \in 1..Len(out)} = (0..(Len(rtr[ev.router].peer) - 1)) \ {1}

(***************************************************************************)
(* C14: the link-state record a router holds for (origin router, link id)  *)
(* is only replaced by a newer advertisement: an LSA the origin emitted    *)
(* before the advertisement already recorded leaves the record unchanged.  *)
(***************************************************************************)
C14_OlderLsaStep ==
    ev'.msg.kind \in {"OSPF_LSA", "OSPF_TE_UPDATE"} =>
        LET key == ev'.msg.src * 1000 + ev'.msg.linkId
            held == rtr[ev'.router].linkStateDB
        IN (key \in DOMAIN held /\ ev'.msg.emitted < held[key].emitted)
              => rtr'[ev'.router].linkStateDB[key] = held[key]

C14_OlderLsaIgnored == [][C14_OlderLsaStep]_vars

(***************************************************************************)
(* C15: for every payload string x and every non-empty key k,              *)
(* simpleDecrypt(simpleEncrypt(x, k), k) is x, and the encrypted string    *)
(* and the decrypted string have the length of x.                          *)
(***************************************************************************)
C15_DecryptInvertsEncrypt ==
    /\ crypt.done \in {"encrypt", "decrypt"} =>
          Len(crypt.encrypted) = Len(crypt.data)
    /\ crypt.done = "decrypt" =>
          /\ crypt.decrypted = crypt.data
          /\ Len(crypt.decrypted) = Len(crypt.data)

\* a string longer than its key, so that the key wraps around, with a
\* character that encrypts to NUL, has been encrypted and decrypted
C15_Witness ==
    /\ crypt.done = "decrypt"
    /\ Len(crypt.data) > Len(crypt.key)
    /\ crypt.encrypted /= crypt.data
    /\ \E i \in 1..Len(crypt.encrypted) : crypt.encrypted[i] = 0

\* the kinds handleMessage() gives to the routing protocol handlers
ControlKinds ==
    {"OSPF_HELLO", "OSPF_LSA", "OSPF_TE_UPDATE", "RIP_UPDATE", "RIP_REQUEST"}

\* the step is the arrival of a frame of a host at a router
DataFrameArrives ==
    /\ ev'.node = "ROUTER"
    /\ ev'.gate >= 0
    /\ ev'.msg.kind \notin ControlKinds

\* the SYN limiter of the router drops the frame that arrives in the step
LimiterDrops ==
    /\ ev'.msg.kind = "TCP_SYN"
    /\ CountOf(rtr[ev'.router].synCounts, ev'.msg.src) + 1 > SynRateLimit

\* the destination of the frame that arrives in the step has a routing
\* entry whose next hop is a gate of the router
RouteHit ==
    LET table == rtr[ev'.router].routingTable
    IN /\ ev'.msg.dst \in DOMAIN table
       /\ table[ev'.msg.dst].nextHop >= 0
       /\ table[ev'.msg.dst].nextHop < Len(rtr[ev'.router].peer)

\* the frames of out' are one copy of the frame that arrived on every gate
\* but the arrival gate
FloodedExceptArrival ==
    /\ \A i \in 1..Len(out') : out'[i].frame = ev'.msg
    /\ \A g \in 0..(Len(rtr[ev'.router].peer) - 1) :
          Cardinality({i \in 1..Len(out') : out'[i].gate = g})
             = IF g = ev'.gate THEN 0 ELSE 1

(***************************************************************************)
(* C16: between two firings of the rate-limit timer a router forwards at   *)
(* most synRateLimit SYN frames of one source and drops every further SYN  *)
(* of that source; a frame of another non-control kind is never dropped by *)
(* the limiter and leaves the SYN counters unchanged.                      *)
(***************************************************************************)
C16_ForwardedSynsWithinLimit ==
    \A a \in DOMAIN sent : sent[a] <= SynRateLimit

C16_LimiterStep ==
    LET r == ev'.router
        before == rtr[r].synCounts
        after == rtr'[r].synCounts
    IN /\ (DataFrameArrives /\ ev'.msg.kind = "TCP_SYN") =>
             /\ after = MapPut(before, ev'.msg.src, CountOf(before, ev'.msg.src) + 1)
             /\ LimiterDrops =>
                   /\ out' = <<>>
                   /\ rtr'[r] = [rtr[r] EXCEPT !.synCounts = after]
             /\ ~LimiterDrops => out' /= <<>>
       /\ (DataFrameArrives /\ ev'.msg.kind /= "TCP_SYN") =>
             /\ after = before
             /\ out' /= <<>>
       /\ ev'.msg.kind = "rateLimitReset" => after = EmptyMap

C16_RouterSynLimiter ==
    /\ []C16_ForwardedSynsWithinLimit
    /\ [][C16_LimiterStep]_vars

\* a source has had as many SYN frames forwarded as the limit allows, and
\* its next SYN has been dropped
C16_Witness ==
    /\ ev.node = "ROUTER"
    /\ ev.msg.kind = "TCP_SYN"
    /\ out = <<>>
    /\ CountOf(sent, ev.msg.src) = SynRateLimit
    /\ rtr[ev.router].synCounts[ev.msg.src] = SynRateLimit + 1

(***************************************************************************)
(* C17: a router that forwards a frame whose destination has a routing     *)
(* entry with a valid next-hop gate g adds the frame's byte length to the  *)
(* utilization counter of gate g only; it gives the frame to the link      *)
(* transmitter of gate g when the priority is high or critical or the      *)
(* priority queue of gate g is empty, and otherwise pushes it into that    *)
(* queue.                                                                  *)
(***************************************************************************)
C17_HitStep ==
    (DataFrameArrives /\ ~LimiterDrops /\ RouteHit) =>
        LET r == ev'.router
            m == ev'.msg
            g == rtr[r].routingTable[m.dst].nextHop
            util == rtr[r].linkUtilization
            queues == rtr[r].outputQueues
        IN /\ rtr'[r].linkUtilization[g] = util[g] + 1000
           /\ \A h \in DOMAIN util : h /= g => rtr'[r].linkUtilization[h] = util[h]
           /\ IF m.priority >= 2 \/ queues[g] = <<>>
              THEN /\ out' = <<[frame |-> m, gate |-> g, via |-> "tx"]>>
                   /\ rtr'[r].outputQueues = queues
              ELSE /\ out' = <<>>
                   /\ rtr'[r].outputQueues = [queues EXCEPT ![g] = Append(@, m)]

C17_ForwardOnRoute == [][C17_HitStep]_vars

\* a normal-priority frame for DnsAddr that came in on gate 2 has gone to
\* the transmitter of gate 0, the second frame billed to that gate
C17_Witness ==
    /\ ev.node = "ROUTER"
    /\ ev.msg.kind = "TCP_DATA"
    /\ ev.msg.priority = 1
    /\ ev.msg.dst = DnsAddr
    /\ ev.gate = 2
    /\ out = <<[frame |-> ev.msg, gate |-> 0, via |-> "tx"]>>
    /\ rtr[ev.router].linkUtilization[0] = 2000
    /\ rtr[ev.router].linkUtilization[2] = 0

(***************************************************************************)
(* C18: a router that receives a non-control frame for a destination with  *)
(* no routing entry, or with an entry whose gate index is not a gate of    *)
(* the router, gives exactly one copy to every output gate but the arrival *)
(* gate, none to the arrival gate, and does not keep the original.         *)
(***************************************************************************)
C18_MissStep ==
    (DataFrameArrives /\ ~RouteHit) =>
        /\ FloodedExceptArrival
        /\ rtr'[ev'.router].outputQueues = rtr[ev'.router].outputQueues

C18_MissFloods == [][C18_MissStep]_vars

\* C18 as amended: the same of every such frame the SYN limiter has not
\* dropped
C18_PassedMissStep ==
    (DataFrameArrives /\ ~LimiterDrops /\ ~RouteHit) =>
        /\ FloodedExceptArrival
        /\ rtr'[ev'.router].outputQueues = rtr[ev'.router].outputQueues

C18_PassedMissFloods == [][C18_PassedMissStep]_vars

\* a frame for DbAddr, whose entry names gate -1, came in on gate 1 and has
\* gone out on every other gate
C18_Witness ==
    /\ ev.node = "ROUTER"
    /\ ev.msg.kind = "TCP_DATA"
    /\ ev.msg.dst = DbAddr
    /\ ev.gate = 1
    /\ Len(out) = Len(rtr[ev.router].peer) - 1
    /\ \A i \in 1..Len(out) : out[i].gate /= 1 /\ out[i].frame = ev.msg

(***************************************************************************)
(* C19: on the HTTP and mail servers a TCP response of priority high or    *)
(* critical is given to the link transmitter, the path of every other      *)
(* frame (sendPacketOnGate), and is never put on the output gate by a path *)
(* that skips the transmitter's busy check and FIFO.                       *)
(***************************************************************************)
C19_HighPriorityResponseViaTransmitter ==
    ev.node \in {"HTTP", "MAIL"} =>
        \A i \in 1..Len(out) :
            (out[i].frame.kind = "TCP_DATA" /\ out[i].frame.priority >= 2)
               => out[i].via = "tx"

(***************************************************************************)
(* C20: on the database server the response to a query of priority high or *)
(* critical is not given to the link transmitter at the instant the query  *)
(* arrives, and a response frame is never a scheduled self-message and a   *)
(* frame given to the transmitter at the same time.                        *)
(***************************************************************************)
C20_DbResponseNotSentWhileScheduled ==
    ev.node = "DB" =>
        \A i \in 1..Len(out) :
            /\ out[i].via /= "txScheduled"
            /\ (ev.msg.kind = "TCP_DATA" /\ ev.msg.priority >= 2)
                  => "bytes" \notin out[i].frame.pars

\* the key-exchange frame server s sends back to peer p
KeyReply(s, p) ==
    ViaTx([Mk("KEY_EXCHANGE", SrvAddr(s), p) EXCEPT
              !.pars = {"publicKey"}, !.priority = PRIORITY_HIGH])

C21_KeyExchangeStep ==
    (/\ received' = received + 1
     /\ ev'.msg.kind = "KEY_EXCHANGE"
     /\ CountOf(srv[node].requestCounts, ev'.msg.src) < RateLimit)
    => /\ ev'.msg.src \in srv'[node].sharedKeys
       /\ out' = IF ev'.msg.src \in srv[node].sharedKeys
                 THEN <<>>
                 ELSE <<KeyReply(node, ev'.msg.src)>>

(***************************************************************************)
(* C21: a server that receives a key-exchange frame from a peer it holds   *)
(* no shared key for stores the key and replies with exactly one           *)
(* key-exchange frame carrying its public key; when it already holds a key *)
(* for the peer it keeps a key and sends no reply.                         *)
(***************************************************************************)
C21_ReplyOnlyToFirstKeyExchange == [][C21_KeyExchangeStep]_vars

\* the connection map of the endpoint under test
EndpointConns == IF node = "PC" THEN pcConns ELSE srv[node].tcpConnections

C22_UnknownFinStep ==
    (/\ received' = received + 1
     /\ ev'.msg.kind = "TCP_FIN"
     /\ ev'.msg.src \notin DOMAIN EndpointConns)
    => /\ out' = <<>>
       /\ EndpointConns' = EndpointConns

(***************************************************************************)
(* C22: a FIN frame from a peer the receiving endpoint (client or server)  *)
(* holds no connection entry for is dropped: the endpoint emits no frame   *)
(* and its connection map is unchanged.                                    *)
(***************************************************************************)
C22_UnknownFinDropped == [][C22_UnknownFinStep]_vars

C23_UnknownAckStep ==
    (/\ received' = received + 1
     /\ ev'.msg.kind = "TCP_ACK"
     /\ ev'.msg.src \notin DOMAIN EndpointConns)
    => /\ out' = <<>>
       /\ IF node = "PC"
          THEN UNCHANGED <<pcConns, cwnd, ssthresh, dupAckCount>>
          ELSE /\ srv'[node].tcpConnections = srv[node].tcpConnections
               /\ srv'[node].cwndMap = srv[node].cwndMap
               /\ srv'[node].ssthreshMap = srv[node].ssthreshMap

(***************************************************************************)
(* C23: an ACK frame from a peer the receiving endpoint holds no           *)
(* connection entry for changes nothing: a server's connection map and     *)
(* per-peer congestion maps, the client's connection map, cwnd, ssthresh   *)
(* and duplicate-ACK counter are unchanged, and no frame is emitted.       *)
(***************************************************************************)
C23_UnknownAckChangesNothing == [][C23_UnknownAckStep]_vars

(***************************************************************************)
(* C24: on an output gate of the router the frames handed to               *)
(* sendPacketOnGate leave in the order they were handed over: no frame is  *)
(* on the wire while a frame handed to the gate's transmitter earlier is   *)
(* still waiting in the gate's FIFO.                                       *)
(***************************************************************************)
C24_RouterFifoOrder ==
    node = "ROUTER" =>
        \A i \in 1..Len(wire), j \in 1..Len(txQueue) : wire[i].id < txQueue[j]

\* the low 24 bits of the SYN-ACK's cookie are those of
\* src ^ dst ^ seq ^ secret for the SYN-ACK's sender, the client and its seq
C25_CookieValid(m) ==
    m.synCookie.lo = (Xor(Xor(Xor(m.src, PcAddr), m.seq), CookieSecret) % Two24)

C25_Completes(m) ==
    /\ m.src \in DOMAIN pcConns
    /\ pcConns[m.src].state = "TCP_SYN_SENT"
    /\ C25_CookieValid(m)

C25_SynAckStep ==
    (/\ node = "PC"
     /\ received' = received + 1
     /\ ev'.msg.kind = "TCP_SYN_ACK")
    => LET m == ev'.msg
           p == m.src
       IN IF C25_Completes(m)
          THEN /\ Len(out') = 2
               /\ \A i \in 1..2 : out'[i].via = "tx" /\ out'[i].frame.dst = p
               /\ out'[1].frame.kind = "TCP_ACK"
               /\ out'[1].frame.ack = m.seq + 1
               /\ out'[2].frame.kind = "TCP_DATA"
               /\ DOMAIN pcConns' = DOMAIN pcConns
               /\ pcConns'[p].state = "TCP_ESTABLISHED"
               /\ pcConns'[p].recvSeq = m.seq + 1
               /\ \A q \in DOMAIN pcConns \ {p} : pcConns'[q] = pcConns[q]
          ELSE /\ out' = <<>>
               /\ pcConns' = pcConns

(***************************************************************************)
(* C25: when the client receives a SYN-ACK from peer p and its connection  *)
(* to p is in syn_sent and the cookie validates, it emits one ACK with     *)
(* ack = SYN-ACK seq + 1 and then one data frame to p, and the connection  *)
(* is established with recvSeq = SYN-ACK seq + 1; in every other case (no  *)
(* entry, entry not in syn_sent, invalid cookie) it emits nothing and the  *)
(* connection map is unchanged.                                            *)
(***************************************************************************)
C25_SynAckCompletesHandshake == [][C25_SynAckStep]_vars

\* a SYN-ACK with a valid cookie has completed a handshake: the ACK and the
\* data frame were sent and the connection is established
C25_Witness ==
    /\ ev.node = "PC"
    /\ ev.msg.kind = "TCP_SYN_ACK"
    /\ C25_CookieValid(ev.msg)
    /\ Len(out) = 2
    /\ out[1].frame.kind = "TCP_ACK"
    /\ out[2].frame.kind = "TCP_DATA"
    /\ ev.msg.src \in DOMAIN pcConns
    /\ pcConns[ev.msg.src].state = "TCP_ESTABLISHED"
    /\ pcConns[ev.msg.src].recvSeq = ev.msg.seq + 1

(***************************************************************************)
(* C26: every data frame the client sends on an established connection     *)
(* carries the connection's send sequence as seq and the connection's      *)
(* current receive sequence as ack, and the send sequence is one higher    *)
(* after the frame is sent.                                                *)
(***************************************************************************)
C26_ClientDataCarriesSeqAndAck ==
    ev.node = "PC" =>
        \A i \in 1..Len(out) :
            out[i].frame.kind = "TCP_DATA" =>
                LET p == out[i].frame.dst IN
                /\ p \in DOMAIN pcConns
                /\ pcConns[p].state = "TCP_ESTABLISHED"
                /\ pcConns[p].sendSeq = out[i].frame.seq + 1
                /\ out[i].frame.ack = pcConns[p].recvSeq

\* the server under test has taken a TCP data frame from the network
C27_DataArrives ==
    /\ node \in Servers
    /\ received' = received + 1
    /\ ev'.msg.kind = "TCP_DATA"

\* the response the handler built: sent at once or put on the queue
C27_Responses ==
    {out'[i].frame : i \in {j \in 1..Len(out') : out'[j].frame.kind = "TCP_DATA"}}
    \cup (IF Len(srv'[node].responseQueue) > Len(srv[node].responseQueue)
          THEN {srv'[node].responseQueue[Len(srv'[node].responseQueue)]}
          ELSE {})

C27_StampStep ==
    C27_DataArrives =>
        LET p == ev'.msg.src
            conns == srv[node].tcpConnections
        IN IF p \in DOMAIN conns /\ conns[p].state = "TCP_ESTABLISHED"
           THEN \A resp \in C27_Responses :
                    /\ resp.seq = conns[p].sendSeq
                    /\ resp.ack = conns[p].recvSeq
                    /\ srv'[node].tcpConnections[p].sendSeq = conns[p].sendSeq + 1
           ELSE srv'[node].tcpConnections = conns

(***************************************************************************)
(* C27: a server's TCP response to peer p takes the connection's send and  *)
(* receive sequence as seq and ack and raises the send sequence by one     *)
(* when the connection to p is established, and only then: a request from  *)
(* a peer without an established connection changes no connection's        *)
(* sequence numbers.                                                       *)
(***************************************************************************)
C27_StampOnlyWhenEstablished == [][C27_StampStep]_vars

\* conn.ssthresh of a connection of the database server
DbSsthresh == 128

\* the window and the threshold the endpoint under test keeps for peer p
C28_Window(p) == IF node = "PC" THEN cwnd ELSE WindowOf(srv[node].cwndMap, p)
C28_Threshold(p) ==
    IF node = "PC" THEN ssthresh
    ELSE IF node = "DB" THEN <<DbSsthresh, 1>>
    ELSE WindowOf(srv[node].ssthreshMap, p)

C28_AckStep ==
    (/\ node \in {"PC", "HTTP", "MAIL", "DB"}
     /\ received' = received + 1
     /\ ev'.msg.kind = "TCP_ACK"
     /\ ev'.msg.src \in DOMAIN EndpointConns)
    => LET p == ev'.msg.src
           c == C28_Window(p)
           ss == C28_Threshold(p)
           after == IF node = "PC" THEN cwnd' ELSE WindowOf(srv'[node].cwndMap, p)
       IN after =
             IF c[1] * ss[2] < ss[1] * c[2]
             THEN <<2 * c[1], c[2]>>
             ELSE Rat(c[1] * c[1] + c[2] * c[2], c[1] * c[2])

(***************************************************************************)
(* C28: on every ACK from a peer with a connection entry the client and    *)
(* the HTTP, mail and database servers apply one rule to their congestion  *)
(* window: doubled when cwnd < ssthresh, increased by 1/cwnd otherwise;    *)
(* the database server's window, with ssthresh 128, doubles on each ACK    *)
(* while it is below 128.                                                  *)
(***************************************************************************)
C28_SameAimdRuleEverywhere == [][C28_AckStep]_vars

\* seconds after a SYN within which the retransmit timer is due
RetransmitDelay == 3

(***************************************************************************)
(* C29: every active open by the client (a SYN to the DNS, HTTP or         *)
(* database server) leaves the handshake retransmit timer scheduled to     *)
(* fire within 3 s of that SYN.                                            *)
(***************************************************************************)
C29_SynLeavesRetransmitTimer ==
    (/\ ev.node = "PC"
     /\ \E i \in 1..Len(out) : out[i].frame.kind = "TCP_SYN")
    => /\ retransmitTimer /= {}
       /\ \A t \in retransmitTimer : t <= now + RetransmitDelay

\* a SYN with the sender's cookie reaches the server more than one second
\* (one sweep period) after the source's previous SYN, or as the source's
\* first SYN
C30_SlowSynArrives ==
    /\ node \in SynServers
    /\ ev'.node = node
    /\ ev'.msg.kind = "TCP_SYN"
    /\ ValidateSYNCookie(ev'.msg.synCookie, ev'.msg.src, ev'.msg.dst, ev'.msg.seq)
    /\ ev'.msg.src \in DOMAIN srv[node].synTimestamps
          => now - srv[node].synTimestamps[ev'.msg.src] > SweepPeriod

C30_SlowSynStep ==
    C30_SlowSynArrives =>
        \E i \in 1..Len(out') : out'[i].frame.kind = "TCP_SYN_ACK"

(***************************************************************************)
(* C30: on an HTTP, mail or database server the flood limiter drops a SYN  *)
(* only if its source has sent more than synRateLimit SYNs within the      *)
(* current 1 s window: a SYN that is the only one of its source in the     *)
(* last second is answered, however many SYNs the source has sent before.  *)
(***************************************************************************)
C30_SlowSourceNeverDropped == [][C30_SlowSynStep]_vars

\* a SYN with the sender's cookie reaches the server while the source's
\* counter, which counts the SYNs since the source's entry was created, is
\* below synRateLimit
C30_UnderLimitSynArrives ==
    /\ node \in SynServers
    /\ ev'.node = node
    /\ ev'.msg.kind = "TCP_SYN"
    /\ ValidateSYNCookie(ev'.msg.synCookie, ev'.msg.src, ev'.msg.dst, ev'.msg.seq)
    /\ CountOf(srv[node].synCounts, ev'.msg.src) < SynRateLimit

C30_UnderLimitStep ==
    C30_UnderLimitSynArrives =>
        /\ \E i \in 1..Len(out') : out'[i].frame.kind = "TCP_SYN_ACK"
        /\ srv'[node].synCounts[ev'.msg.src]
             = CountOf(srv[node].synCounts, ev'.msg.src) + 1

(***************************************************************************)
(* C30, amended: on an HTTP, mail or database server the flood limiter     *)
(* drops a SYN only if the source's counter, counting this SYN, exceeds    *)
(* synRateLimit; the counter counts the source's SYNs since its entry was  *)
(* created, and the entry is removed by the 1 s sweep once the source's    *)
(* latest SYN is more than 60 s old.  A SYN with a valid cookie that finds *)
(* the counter below synRateLimit is answered with a SYN-ACK.              *)
(***************************************************************************)
C30_DroppedOnlyOverCounter == [][C30_UnderLimitStep]_vars

\* a source whose entry was reaped after 60 s has sent synRateLimit SYNs
\* again, and the last of them was answered
C30_Witness ==
    /\ ev.node \in SynServers
    /\ ev.msg.kind = "TCP_SYN"
    /\ now > SynWindow
    /\ ValidateSYNCookie(ev.msg.synCookie, ev.msg.src, ev.msg.dst, ev.msg.seq)
    /\ CountOf(srv[ev.node].synCounts, ev.msg.src) = SynRateLimit
    /\ \E i \in 1..Len(out) : out[i].frame.kind = "TCP_SYN_ACK"

\* the items of a RIP update that advertise destination d
C31_ItemsFor(m, d) == {i \in 1..Len(m.routes) : m.routes[i].dest = d}

\* item i of the update is installed over the table before: it is within
\* the hop limit, and the destination is unknown or the metric is strictly
\* better
C31_Installs(before, item) ==
    /\ item.hops + 1 < RipInfinity
    /\ \/ item.dest \notin DOMAIN before
       \/ item.metric + 1 < before[item.dest].metric

C31_UpdateStep ==
    (ev'.node = "ROUTER" /\ ev'.msg.kind = "RIP_UPDATE") =>
        LET before == rtr[ev'.router].routingTable
            after == rtr'[ev'.router].routingTable
            m == ev'.msg
        IN \A d \in DOMAIN before \cup DOMAIN after
                      \cup {m.routes[i].dest : i \in 1..Len(m.routes)} :
              IF \E i \in C31_ItemsFor(m, d) : C31_Installs(before, m.routes[i])
              THEN /\ d \in DOMAIN after
                   /\ \E i \in C31_ItemsFor(m, d) :
                         after[d] = [nextHop |-> ev'.gate,
                                     metric |-> m.routes[i].metric + 1,
                                     hopCount |-> m.routes[i].hops + 1]
              ELSE /\ d \in DOMAIN after <=> d \in DOMAIN before
                   /\ d \in DOMAIN before => after[d] = before[d]

(***************************************************************************)
(* C31: when a RIP router processes an update received on gate g, the      *)
(* entry of an advertised destination is replaced by next hop g, metric +  *)
(* 1 and hops + 1 exactly when hops + 1 < 16 and the destination has no    *)
(* entry or metric + 1 is strictly smaller than the stored metric; in      *)
(* every other case (equal metric, hops + 1 >= 16) the entry is unchanged, *)
(* and entries of destinations the update does not name are not touched.   *)
(***************************************************************************)
C31_RipInstallsOnlyBetter == [][C31_UpdateStep]_vars

\* a router has been advertised a destination at a metric that, plus one,
\* equals the metric of its entry, and has kept the entry's next hop
C31_Witness ==
    /\ ev.node = "ROUTER"
    /\ ev.msg.kind = "RIP_UPDATE"
    /\ \E i \in 1..Len(ev.msg.routes) :
          LET d == ev.msg.routes[i].dest
              table == rtr[ev.router].routingTable
          IN /\ d \in DOMAIN table
             /\ table[d].metric = ev.msg.routes[i].metric + 1
             /\ table[d].nextHop /= ev.gate


\* the responses of priority p in the queue of the server under test
C32_Queued(p) ==
    {i \in 1..Len(srv[node].responseQueue) : srv[node].responseQueue[i].priority = p}

\* the number of frames equal to f in the queue q
C32_Copies(q, f) == Cardinality({i \in 1..Len(q) : q[i] = f})

\* a non-empty queue has its process timer scheduled
C32_TimerScheduledWhenQueued ==
    \A s \in QueueServers : srv[s].responseQueue /= <<>> => srv[s].queueTimer

\* the process timer fires on a non-empty queue
C32_Firing ==
    /\ ev'.msg.kind = "queueTimer"
    /\ srv[node].responseQueue /= <<>>

\* a firing gives exactly one queued response to sendPacketOnGate, one of
\* the highest priority queued, and leaves the others queued
C32_FiringStep ==
    C32_Firing =>
        LET q == srv[node].responseQueue
            q2 == srv'[node].responseQueue
        IN /\ Len(out') = 1
           /\ out'[1].via = "tx"
           /\ \A i \in 1..Len(q) : q[i].priority <= out'[1].frame.priority
           /\ Len(q2) = Len(q) - 1
           /\ \A i \in 1..Len(q) :
                 C32_Copies(q2, q[i]) =
                    C32_Copies(q, q[i]) - (IF q[i] = out'[1].frame THEN 1 ELSE 0)

\* a low-priority response in the queue is handed over at some later time
C32_LowResponseSent == (C32_Queued(PRIORITY_LOW) /= {}) ~> (C32_Queued(PRIORITY_LOW) = {})

\* the queue is served as long as it holds a response: it stays empty from
\* some time on, or the timer keeps taking responses from it
C32_QueueServed ==
    \/ <>[](srv[node].responseQueue = <<>>)
    \/ []<><<C32_Firing /\ TcpServerQueueTimer>>_vars

\* C32 as stated: every response placed in the deferred-response queue of
\* the HTTP, mail or database server is eventually handed to the link
\* transmitter (the timer is scheduled while the queue is non-empty, each
\* firing removes exactly one response, the one of highest priority).  Only
\* finitely many low-priority responses are queued in a run, so each of
\* them being handed over means that none stays queued.
C32_EveryQueuedResponseSent ==
    /\ []C32_TimerScheduledWhenQueued
    /\ [][C32_FiringStep]_vars
    /\ C32_LowResponseSent

\* C32, amended: while the queue is non-empty its process timer is
\* scheduled, each firing hands exactly one response to the link
\* transmitter, one of the highest priority queued, and a non-empty queue is
\* always served again; a response waits for as long as responses of higher
\* priority keep being queued.
C32_QueueServedByPriority ==
    /\ []C32_TimerScheduledWhenQueued
    /\ [][C32_FiringStep]_vars
    /\ C32_QueueServed

\* the timer took a normal-priority response and left a low-priority one
\* that was queued before it
C32_Witness ==
    /\ ev.msg.kind = "queueTimer"
    /\ Len(out) = 1
    /\ out[1].frame.priority = PRIORITY_NORMAL
    /\ C32_Queued(PRIORITY_LOW) /= {}


\* the step is an event of the OSPF-TE router: a Hello, LSA or TE-update
\* frame, or a firing of its Hello or LSA timer
C33_RoutingEvent ==
    /\ ev'.node = "ROUTER"
    /\ \/ received' = received + 1
       \/ nextId' /= nextId
       \/ ev'.msg.kind = "ospfHello"

\* a routing event changes no field of the router but linkStateDB, and a
\* timer or a Hello does not change that either
C33_RoutingStep ==
    C33_RoutingEvent =>
        /\ rtr'[1] = [rtr[1] EXCEPT !.linkStateDB = rtr'[1].linkStateDB]
        /\ ev'.msg.kind \in {"ospfHello", "ospfLSA", "OSPF_HELLO"} => rtr' = rtr

\* C33: in an OSPF-TE router any sequence of Hello, LSA and TE-update
\* frames and of Hello and LSA timer events leaves the routing table exactly
\* the static routes; the link-state database is the only state those
\* frames modify.
C33_OspfLeavesRoutingTable ==
    /\ [](rtr[1].routingTable = FwdRoutes)
    /\ [][C33_RoutingStep]_vars

\* LSAs of both links of the neighbour are in the database, one of them
\* stored again with another bandwidth, and the LSA timer has fired
C33_Witness ==
    /\ rtr[1].routingProtocol = "OSPF-TE"
    /\ Cardinality(DOMAIN rtr[1].linkStateDB) = 2
    /\ \E k \in DOMAIN rtr[1].linkStateDB :
          rtr[1].linkStateDB[k].bandwidth /= Rat(LinkBandwidth, 1)
    /\ nextId > 1
    /\ ev.msg.kind \in {"OSPF_LSA", "OSPF_TE_UPDATE"}
    /\ rtr[1].routingTable = FwdRoutes


\* a frame of the network reaches the DNS server
C34_FrameArrives ==
    /\ ev'.node = "DNS"
    /\ ev'.msg.kind \notin {"rateLimitReset", "tick"}

\* the frame is counted whatever its kind; a frame that finds the counter
\* at the limit is dropped without a reply and without a change of keys or
\* connections; a query that finds it below the limit is answered
C34_CountingStep ==
    C34_FrameArrives =>
        LET src == ev'.msg.src
            before == CountOf(srv["DNS"].requestCounts, src)
        IN /\ CountOf(srv'["DNS"].requestCounts, src) = before + 1
           /\ before >= RateLimit =>
                 /\ out' = <<>>
                 /\ srv'["DNS"] = [srv["DNS"] EXCEPT
                                      !.requestCounts = srv'["DNS"].requestCounts]
           /\ (before < RateLimit /\ "qname" \in ev'.msg.pars) =>
                 /\ Len(out') = 1
                 /\ out'[1].frame.dst = src
                 /\ "answer" \in out'[1].frame.pars

\* the counters are cleared by the reset timer only
C34_ResetStep ==
    /\ ev'.msg.kind = "rateLimitReset" => srv'["DNS"].requestCounts = EmptyMap
    /\ ev'.msg.kind = "tick" => srv' = srv

\* C34: the DNS server counts every received frame of any kind against the
\* sender's rate-limit counter; between two resets it processes at most
\* rateLimit frames of a source and drops every further one without a reply
\* and without changing keys or connections, so that key-exchange and
\* handshake frames reduce the number of queries answered.
C34_DnsCountsEveryFrame ==
    /\ [](\A a \in DOMAIN sent : sent[a] <= RateLimit)
    /\ [][C34_CountingStep /\ C34_ResetStep]_vars

\* a query of the client is dropped in a second in which the client's
\* key exchange and handshake were processed, while the second source, that
\* sent queries only, has had more frames answered
C34_Witness ==
    /\ ev.node = "DNS"
    /\ ev.msg.kind = "DNS_QUERY"
    /\ ev.msg.src = PcAddr
    /\ out = <<>>
    /\ PcAddr \in srv["DNS"].sharedKeys
    /\ PcAddr \in DOMAIN srv["DNS"].tcpConnections
    /\ srv["DNS"].tcpConnections[PcAddr].state = "TCP_ESTABLISHED"
    /\ CountOf(srv["DNS"].requestCounts, PcAddr) = RateLimit + 1
    /\ CountOf(sent, MailAddr) = RateLimit
    /\ now > 0


\* every per-gate priority output queue of every router is empty
C35_OutputQueuesEmpty ==
    \A r \in DOMAIN rtr : \A g \in DOMAIN rtr[r].outputQueues :
        rtr[r].outputQueues[g] = <<>>

\* a frame with a valid route that the limiter lets pass goes to
\* sendPacketOnGate of the next-hop gate in the step it arrives in
C35_ForwardStep ==
    (DataFrameArrives /\ ~LimiterDrops /\ RouteHit) =>
        out' = <<ViaGate(ev'.msg, rtr[ev'.router].routingTable[ev'.msg.dst].nextHop)>>

\* C35: in every reachable state of a router every per-gate priority output
\* queue is empty: each frame with a valid route is handed to the next-hop
\* gate's transmitter within the handler invocation, whatever its priority.
C35_OutputQueuesNeverUsed ==
    /\ []C35_OutputQueuesEmpty
    /\ [][C35_ForwardStep]_vars

\* a normal-priority frame with a route has followed another one to the
\* same gate and has been given to the transmitter at once
C35_Witness ==
    /\ ev.node = "ROUTER"
    /\ ev.msg.kind = "TCP_DATA"
    /\ ev.msg.priority = PRIORITY_NORMAL
    /\ ev.msg.dst = DnsAddr
    /\ out = <<ViaGate(ev.msg, 0)>>
    /\ rtr[1].linkUtilization[0] >= 2 * FrameBytes
    /\ C35_OutputQueuesEmpty


\* C36: LSA flooding terminates: in any topology, a three-router cycle
\* included, an LSA is re-flooded only finitely many times, and once no
\* router originates further LSAs the network eventually holds no LSA in
\* flight.  (The LSA timers fire at most MaxFloodRounds times in a run.)
C36_LsaFloodingTerminates == <>[](InFlight = 0)


\* C37: connection teardown terminates: once a FIN is delivered to the
\* client or to an HTTP, mail or database server only finitely many FIN
\* frames are exchanged, and eventually no FIN is in flight.  (At most
\* MaxFins FIN frames come from outside in a run.)
C37_TeardownTerminates == <>[](FinsInFlight = {})


\* the step is an ACK on which server s moves its connection with the
\* sender from syn_received to established
C38_Establishes(s) ==
    /\ ev'.node = s
    /\ ev'.msg.kind = "TCP_ACK"
    /\ ev'.msg.src \in DOMAIN srv[s].tcpConnections
    /\ srv[s].tcpConnections[ev'.msg.src].state = "TCP_SYN_RECEIVED"
    /\ ev'.msg.src \in DOMAIN srv'[s].tcpConnections
    /\ srv'[s].tcpConnections[ev'.msg.src].state = "TCP_ESTABLISHED"

C38_EstablishStep ==
    \A s \in Servers :
        C38_Establishes(s) =>
            /\ ev'.msg.seq = srv[s].tcpConnections[ev'.msg.src].recvSeq
            /\ ev'.msg.ack = srv[s].tcpConnections[ev'.msg.src].sendSeq

C39_ImproveStep ==
    \A r \in DOMAIN rtr : \A d \in DOMAIN rtr[r].routingTable :
        /\ d \in DOMAIN rtr'[r].routingTable
        /\ rtr'[r].routingTable[d].metric <= rtr[r].routingTable[d].metric

\* C39: in a RIP router routing state only improves: an entry once present
\* is never removed and the metric stored for a destination never
\* increases; a destination a neighbour stops advertising keeps its last
\* route.
C39_RipRoutesOnlyImprove ==
    /\ [](rtr[1].routingProtocol = "RIP")
    /\ [][C39_ImproveStep]_vars

\* the router holds a route to HttpAddr it learned from the neighbour on
\* the gate the last update came in on, and that update did not name
\* HttpAddr
C39_Witness ==
    /\ ev.node = "ROUTER"
    /\ ev.msg.kind = "RIP_UPDATE"
    /\ HttpAddr \in DOMAIN rtr[1].routingTable
    /\ rtr[1].routingTable[HttpAddr].nextHop = ev.gate
    /\ \A i \in 1..Len(ev.msg.routes) : ev.msg.routes[i].dest /= HttpAddr


\* the SYN frames for the database server among the frames o
C40_DbSyns(o) ==
    {i \in 1..Len(o) : o[i].frame.kind = "TCP_SYN" /\ o[i].frame.dst = DbAddr}

\* the ACK frames among the frames o
C40_Acks(o) == {i \in 1..Len(o) : o[i].frame.kind = "TCP_ACK"}

\* the client sends a SYN to the database server only in a step that
\* creates its entry for 601, one SYN, and never drops that entry (out' is
\* what the handler of the step sent unless the step is a tick of the clock)
C40_OpenStep ==
    /\ (C40_DbSyns(out') /= {} /\ now' = now) =>
          /\ ev'.node = "PC"
          /\ Cardinality(C40_DbSyns(out')) = 1
          /\ DbAddr \notin DOMAIN pcConns
          /\ DbAddr \in DOMAIN pcConns'
    /\ DbAddr \in DOMAIN pcConns => DbAddr \in DOMAIN pcConns'

\* a TCP data frame opens the connection exactly when it carries bytes and
\* the client holds no entry for 601, and is answered with one ACK whose
\* ack is the frame's seq + 1
C40_DataStep ==
    (ev'.node = "PC" /\ ev'.msg.kind = "TCP_DATA" /\ now' = now) =>
        /\ C40_DbSyns(out') /= {}
              <=> ("bytes" \in ev'.msg.pars /\ DbAddr \notin DOMAIN pcConns)
        /\ Cardinality(C40_Acks(out')) = 1
        /\ \A i \in C40_Acks(out') :
              /\ out'[i].frame.dst = ev'.msg.src
              /\ out'[i].frame.ack = ev'.msg.seq + 1
        /\ Len(out') = 1 + Cardinality(C40_DbSyns(out'))

\* C40: the client emits at most one SYN to the database server 601: the
\* first TCP data frame carrying bytes that it receives while it holds no
\* entry for 601 opens the connection, every later such frame opens no
\* further connection, and every received TCP data frame is still answered
\* with exactly one ACK with ack = seq + 1.
C40_OneDbSyn == [][C40_OpenStep /\ C40_DataStep]_vars

\* a data frame carrying bytes has reached the client while the connection
\* an earlier one opened is still in syn_sent, and has been answered with
\* the ACK alone
C40_Witness ==
    /\ ev.node = "PC"
    /\ ev.msg.kind = "TCP_DATA"
    /\ "bytes" \in ev.msg.pars
    /\ DbAddr \in DOMAIN pcConns
    /\ pcConns[DbAddr].state = "TCP_SYN_SENT"
    /\ Len(out) = 1
    /\ out[1].frame.kind = "TCP_ACK"
    /\ out[1].frame.ack = ev.msg.seq + 1

====
